---- MODULE Spec2Model ----
(***************************************************************************)
(* RoadForms: form builder backend (forms worker) and advanced analytics   *)
(* (collector, A/B test managers, conversion and journey trackers).        *)
(*                                                                         *)
(* One module, several specifications over the same variables:             *)
(*   SpecForms    the HTTP handlers of the forms worker                    *)
(*   SpecFormsOverlap  forms worker: overlapping submit and delete         *)
(*   SpecValidate validateField of the forms worker, called by itself      *)
(*   SpecCsv      the CSV cell encoding of GET /forms/:id/export           *)
(*   SpecAB       ABTestManager (hash based assignment)                    *)
(*   SpecFAB      FormABTestManager (recorded assignment)                  *)
(*   SpecFabResults  FormABTestManager: the counts behind getResults       *)
(*   SpecFabAssign   FormABTestManager: getVariant on one test over time   *)
(*   SpecFabOverlap  FormABTestManager: overlapping getVariant calls       *)
(*   SpecCol      FormAnalyticsCollector                                   *)
(*   SpecColFields   FormAnalyticsCollector: one field of one session      *)
(*   SpecOverlap  FormAnalyticsCollector: overlapping startSession calls   *)
(*   SpecMarkOverlap  FormAnalyticsCollector: overlapping markSubmitted    *)
(*   SpecCT       ConversionTracker                                        *)
(*   SpecJourney  CustomerJourneyTracker                                   *)
(* Strings whose characters matter are sequences of one-character strings. *)
(***************************************************************************)
EXTENDS Integers, Sequences, FiniteSets, TLC

VARIABLES
    now,          \* Date.now() of the forms worker
    forms,        \* KV  form:{id}                 -> Form
    subs,         \* KV  submission:{id}:{subId}   -> Submission
    nextFormId,   \* crypto.randomUUID() for forms: ids are never reused
    nextSubId,    \* crypto.randomUUID() for submissions
    clean,        \* form ids touched only by create/publish/unpublish/submit
    okSubmits,    \* number of successful submits per form id since create
    resp,         \* the request being answered and its response
    formOps,      \* requests taken up by the forms worker so far
    formCalls,    \* the submit and delete requests that overlap: per request
                  \* what it awaits, the form it read, the keys it listed
    validated,    \* the last call of validateField: field, value and result
    csvData,      \* export: the data of the submission being exported
    csvCells,     \* export: the quoted cells of its row
    csvRow,       \* export: the row, cells joined by commas
    csvParsed,    \* a CSV reader's cells of that row
    abTests,      \* ABTestManager: KV abtest:{formId} -> ABTest
    abNextId,     \* ABTestManager: crypto.randomUUID() for tests
    abNow,        \* ABTestManager: Date.now()
    abSeen,       \* per form and session: the calls of getVariant and the
                  \* variants they returned since the stored test last changed
    abRet,        \* the last call of getVariant and what it returned
    fabTests,     \* FormABTestManager: KV abtest:{testId} -> test
    fabFormTest,  \* FormABTestManager: KV abtest:form:{formId} -> testId
    fabAssign,    \* KV abtest:assignment:{testId}:{sessionId} -> variant id
    fabNextId,    \* FormABTestManager: fresh test ids
    fabOps,       \* calls of FormABTestManager so far
    fabGiven,     \* per live assignment record: the variant returned when it
                  \* was recorded, and the calls of getVariant served by it
    fabRet,       \* the last call of FormABTestManager.getVariant
    journeys,     \* CustomerJourneyTracker: KV journey:{customerId} -> list
    jrCalls,      \* trackTouchpoint calls so far; the clock ticks once a call
    jrAll,        \* per customer: every touchpoint ever appended, in order
    colSessions,  \* FormAnalyticsCollector.sessions: sessionId -> FormSession
    colCounters,  \* KV analytics:{key} holding a count
    colAverages,  \* KV analytics:{key} holding {sum, count}
    colErrors,    \* KV analytics:errors:{formId}:{fieldId} -> message counts
    colStored,    \* KV analytics:session:{formId}:{sessionId} -> FormSession
    colNow,       \* Date.now() of the collector, in ms
    colOps,       \* collector calls and clock ticks so far
    colOut,       \* the FormAnalytics being returned by getAnalytics
    colEnded,     \* per session id: 0, or 1 once markSubmitted / trackDropOff ran
                  \* for it with no startSession since, 2 once a call followed that
    fabCalls,     \* the getVariant calls that overlap: per call what it awaits, what
                  \* it read so far, the variant it selected and what it returned
    colCalls,     \* the collector calls that overlap: per call its counter keys,
                  \* how many it incremented, what it awaits, the text it read
    ctEvents,     \* ConversionTracker: KV event:{form}:{session}:{type}:{timestamp}
    ctAggregates, \* KV aggregate:{formId}:{date} -> the five counters of the day
    ctRevenue,    \* KV revenue:{formId}:{date} -> {total, count}
    ctNow,        \* Date.now() of the tracker, in ms
    ctOps,        \* tracker calls and clock ticks so far
    ctRet,        \* the FormPerformance returned by the last call, if it was
                  \* getPerformance, and the days it was asked for
    ctTracked     \* per form, event type and date of the call: trackEvent calls

formVars == <<now, forms, subs, nextFormId, nextSubId, clean, okSubmits, resp, formOps,
              formCalls>>
csvVars == <<csvData, csvCells, csvRow, csvParsed>>
abVars == <<abTests, abNextId, abNow, abSeen, abRet>>
fabStore == <<fabTests, fabFormTest, fabAssign, fabNextId, fabGiven, fabRet>>
fabVars == <<fabStore, fabOps>>
jrVars == <<journeys, jrCalls, jrAll>>
colVars == <<colSessions, colCounters, colAverages, colErrors, colStored, colNow, colOps, colOut,
             colEnded>>
ctStore == <<ctEvents, ctAggregates, ctRevenue>>
ctVars == <<ctStore, ctNow, ctOps, ctRet, ctTracked>>
vars == <<formVars, validated, csvVars, abVars, fabVars, fabCalls, jrVars, colVars, colCalls,
          ctVars>>

\* the steps of one component leave the other components alone
FormsOnly == UNCHANGED <<validated, csvVars, abVars, fabVars, jrVars, colVars,
                           ctVars, colCalls, fabCalls, formCalls>>
CsvOnly == UNCHANGED <<validated, formVars, abVars, fabVars, jrVars, colVars,
                         ctVars, colCalls, fabCalls>>
ABOnly == UNCHANGED <<validated, formVars, csvVars, fabVars, jrVars, colVars,
                        ctVars, colCalls, fabCalls>>
FabOnly == UNCHANGED <<validated, formVars, csvVars, abVars, jrVars, colVars,
                         ctVars, colCalls, fabCalls>>
JourneyOnly == UNCHANGED <<validated, formVars, csvVars, abVars, fabVars, colVars,
                             ctVars, colCalls, fabCalls>>
ColOnly == UNCHANGED <<validated, formVars, csvVars, abVars, fabVars, jrVars,
                         ctVars, colCalls, fabCalls>>
ValidateOnly == UNCHANGED <<formVars, csvVars, abVars, fabVars, jrVars, colVars,
                              ctVars, colCalls, fabCalls>>
CtOnly == UNCHANGED <<validated, formVars, csvVars, abVars, fabVars, jrVars, colVars, colCalls,
                      fabCalls>>
OverlapOnly ==
    UNCHANGED <<validated, formVars, csvVars, abVars, fabVars, fabCalls, jrVars, ctVars,
                colAverages, colErrors, colStored, colNow, colOps, colOut>>
MarkSubmittedEndsOnly ==
    UNCHANGED <<validated, formVars, csvVars, abVars, fabVars, fabCalls, jrVars, ctVars,
                colCounters, colAverages, colErrors, colNow, colOps, colOut, colEnded>>
FormsOverlapOnly ==
    UNCHANGED <<validated, csvVars, abVars, fabVars, fabCalls, jrVars, colVars, colCalls, ctVars,
                now, nextFormId, clean, okSubmits, resp, formOps>>
FabOverlapOnly ==
    UNCHANGED <<validated, formVars, csvVars, abVars, jrVars, colVars, colCalls, ctVars,
                fabFormTest, fabNextId, fabOps, fabGiven, fabRet>>

----------------------------------------------------------------------------
(* Bounds                                                                  *)
MaxForms == 2      \* forms ever created
MaxSubs == 2       \* submissions ever created
MaxTime == 2       \* the clock runs over 1..MaxTime
MaxFormOps == 5    \* requests to the forms worker (clock ticks included)
MaxLen == 5        \* longest exported string value
MaxABTests == 2    \* A/B tests ever created by ABTestManager
MaxABTime == 2     \* the clock of ABTestManager runs over 1..MaxABTime
MaxFabTests == 1   \* tests ever created by FormABTestManager
MaxFabOps == 5     \* calls of FormABTestManager
MaxTouch == 150    \* trackTouchpoint calls
MaxVaried == 2     \* calls whose touchpoint type is chosen freely
MaxFieldOps == 8   \* collector calls behind a per-field report
MaxColOps == 4     \* collector calls and clock ticks
MaxCtOps == 5      \* conversion tracker calls and clock ticks
MaxCalls == 2      \* calls or requests that may overlap

----------------------------------------------------------------------------
(* JavaScript values                                                       *)

\* optional number / optional string that is absent (undefined)
NoNum == -1
NoStr == "<undefined>"

Undefined == [t |-> "undefined", s |-> <<>>, n |-> 0]
Str(s) == [t |-> "string", s |-> s, n |-> 0]
Num(n) == [t |-> "number", s |-> <<>>, n |-> n]

\* truthiness of a body value: undefined, "" and 0 are falsy
Truthy(v) ==
    CASE v.t = "undefined" -> FALSE
      [] v.t = "string" -> v.s # <<>>
      [] v.t = "number" -> v.n # 0

\* truthiness of an optional string / optional number setting
TruthyStr(s) == s # NoStr /\ s # ""
TruthyNum(n) == n # NoNum /\ n # 0

\* a quotient n / d of two integers, kept exact
Ratio(n, d) == [num |-> n, den |-> d]
Zero == Ratio(0, 1)

Digits == <<"0", "1", "2", "3", "4", "5", "6", "7", "8", "9">>
IsDigit(c) == \E i \in 1..10 : Digits[i] = c
IsWs(c) == c \in {" ", "\t", "\n"}

RECURSIVE NatToChars(_)
NatToChars(n) ==
    IF n < 10 THEN <<Digits[n + 1]>>
    ELSE NatToChars(n \div 10) \o <<Digits[(n % 10) + 1]>>

\* String(v)
ToStr(v) ==
    CASE v.t = "string" -> v.s
      [] v.t = "number" -> IF v.n < 0 THEN <<"-">> \o NatToChars(-v.n) ELSE NatToChars(v.n)
      [] v.t = "undefined" -> <<"u", "n", "d", "e", "f", "i", "n", "e", "d">>

\* body[field.id]
Lookup(body, k) == IF k \in DOMAIN body THEN body[k] ELSE Undefined

----------------------------------------------------------------------------
(* validateField                                                           *)

\* /^[^\s@]+@[^\s@]+\.[^\s@]+$/
EmailPart(s, a, b) == a <= b /\ \A k \in a..b : ~IsWs(s[k]) /\ s[k] # "@"
EmailRegexTest(s) ==
    \E i, j \in 1..Len(s) :
        /\ s[i] = "@" /\ s[j] = "." /\ i < j
        /\ EmailPart(s, 1, i - 1)
        /\ EmailPart(s, i + 1, j - 1)
        /\ EmailPart(s, j + 1, Len(s))

\* /^[\d\s\-+()]+$/
PhoneRegexTest(s) ==
    /\ Len(s) >= 1
    /\ \A k \in 1..Len(s) : IsDigit(s[k]) \/ IsWs(s[k]) \/ s[k] \in {"-", "+", "(", ")"}

\* parseFloat on the integer-literal fragment: leading whitespace, optional
\* sign, longest run of digits; NaN when there is no digit
RECURSIVE SkipWs(_)
SkipWs(s) == IF s # <<>> /\ IsWs(Head(s)) THEN SkipWs(Tail(s)) ELSE s
RECURSIVE DigitRun(_, _, _)
DigitRun(s, acc, seen) ==
    IF s # <<>> /\ IsDigit(Head(s))
    THEN DigitRun(Tail(s), 10 * acc + (CHOOSE i \in 1..10 : Digits[i] = Head(s)) - 1, TRUE)
    ELSE [nan |-> ~seen, v |-> acc]
ParseFloat(s0) ==
    LET s == SkipWs(s0)
    IN  IF s # <<>> /\ Head(s) = "-"
        THEN LET r == DigitRun(Tail(s), 0, FALSE) IN [nan |-> r.nan, v |-> -r.v]
        ELSE IF s # <<>> /\ Head(s) = "+" THEN DigitRun(Tail(s), 0, FALSE)
        ELSE DigitRun(s, 0, FALSE)

\* new RegExp(validation.pattern).test(value) for the patterns form authors
\* use in this model
PatternTest(p, s) ==
    CASE p = "^A" -> s # <<>> /\ Head(s) = "A"
      [] p = "^[0-9]+$" -> s # <<>> /\ \A k \in 1..Len(s) : IsDigit(s[k])
      [] OTHER -> TRUE

NoValidation ==
    [present |-> FALSE, min |-> NoNum, max |-> NoNum, minLength |-> NoNum,
     maxLength |-> NoNum, pattern |-> NoStr, customMessage |-> NoStr]
EmptyValidation == [NoValidation EXCEPT !.present = TRUE]

\* a message is the sequence of the pieces of its template literal;
\* <<>> is null (no error)
NoError == <<>>
OrCustom(validation, msg) ==
    IF TruthyStr(validation.customMessage) THEN <<validation.customMessage>> ELSE msg

StringRules(field, value) ==
    LET validation == field.validation
    IN  IF value.t # "string" THEN NoError
        ELSE IF TruthyNum(validation.minLength) /\ Len(value.s) < validation.minLength
        THEN OrCustom(validation, <<field.label, " must be at least ",
                                    ToString(validation.minLength), " characters">>)
        ELSE IF TruthyNum(validation.maxLength) /\ Len(value.s) > validation.maxLength
        THEN OrCustom(validation, <<field.label, " must be at most ",
                                    ToString(validation.maxLength), " characters">>)
        ELSE IF TruthyStr(validation.pattern) /\ ~PatternTest(validation.pattern, value.s)
        THEN OrCustom(validation, <<field.label, " format is invalid">>)
        ELSE NoError

NumberRules(field, value) ==
    LET validation == field.validation
        num == ParseFloat(ToStr(value))
    IN  IF field.type # "number" THEN StringRules(field, value)
        ELSE IF num.nan THEN <<field.label, " must be a number">>
        ELSE IF validation.min # NoNum /\ num.v < validation.min
        THEN OrCustom(validation, <<field.label, " must be at least ", ToString(validation.min)>>)
        ELSE IF validation.max # NoNum /\ num.v > validation.max
        THEN OrCustom(validation, <<field.label, " must be at most ", ToString(validation.max)>>)
        ELSE StringRules(field, value)

PhoneRule(field, value) ==
    IF field.type = "phone" /\ ~PhoneRegexTest(ToStr(value))
    THEN OrCustom(field.validation, <<field.label, " must be a valid phone number">>)
    ELSE NumberRules(field, value)

EmailRule(field, value) ==
    IF field.type = "email" /\ ~EmailRegexTest(ToStr(value))
    THEN OrCustom(field.validation, <<field.label, " must be a valid email">>)
    ELSE PhoneRule(field, value)

validateField(field, value) ==
    IF ~field.validation.present THEN NoError ELSE EmailRule(field, value)

----------------------------------------------------------------------------
(* Forms worker: data                                                      *)

\* settings used when POST /forms carries none
DefaultSettings ==
    [successMessage |-> "Thank you for your submission!", closeDate |-> NoNum,
     closedMessage |-> NoStr, webhookUrl |-> NoStr, redirectUrl |-> NoStr]

Field(id, type, label, required, validation, order) ==
    [id |-> id, type |-> type, label |-> label, required |-> required,
     validation |-> validation, order |-> order]

\* the fields form authors define in this model
EmailValidated == Field("email", "email", "Email", TRUE, EmptyValidation, 1)
NameField ==
    Field("name", "text", "Name", TRUE, [EmptyValidation EXCEPT !.minLength = 2], 0)

\* the JSON bodies of POST /forms in this model
FormBody(name, fields, hasSettings, settings) ==
    [name |-> name, fields |-> fields, hasSettings |-> hasSettings, settings |-> settings]

GoodEmail == <<"a", "@", "b", ".", "c", "o", "m">>

\* the JSON bodies of POST /forms/:id/submit in this model: a key that is
\* not sent reads as undefined
SubmitBody(email, name) == [email |-> email, name |-> name]

\* the JSON bodies of PUT /forms/:id in this model: keys names the keys sent
UpdateBody(keys) ==
    [keys |-> keys, id |-> 99, name |-> "Renamed", createdAt |-> 0,
     published |-> TRUE, submissions |-> 1]

----------------------------------------------------------------------------
(* Forms worker: handlers                                                  *)

\* a request and its response; webhook tells how the webhook call of a
\* submit went: "none" (not made), "ok", "failed" (fetch threw)
Response(op, id, body, status, error, subId) ==
    [op |-> op, id |-> id, body |-> body,
     status |-> status, error |-> error, subId |-> subId, webhook |-> "none"]

NoBody == SubmitBody(Undefined, Undefined)

\* ids a client may put in a URL; an id names no form before its form is
\* created and after it is deleted
UrlIds == 1..MaxForms

\* the field loop without its required-field check
RECURSIVE CheckFieldsNotRequired(_, _, _)
CheckFieldsNotRequired(fields, body, i) ==
    IF i > Len(fields) THEN NoError
    ELSE LET field == fields[i]
             value == Lookup(body, field.id)
         IN  IF Truthy(value) /\ validateField(field, value) # NoError
             THEN validateField(field, value)
             ELSE CheckFieldsNotRequired(fields, body, i + 1)

\* the checks of POST /forms/:id/submit on the fields of the form, in array
\* order: the first failing field decides the error
RECURSIVE CheckFields(_, _, _)
CheckFields(fields, body, i) ==
    IF i > Len(fields) THEN NoError
    ELSE LET field == fields[i]
             value == Lookup(body, field.id)
         IN  IF field.required /\ ~Truthy(value)
             THEN <<"Field \"", field.label, "\" is required">>
             ELSE IF Truthy(value) /\ validateField(field, value) # NoError
             THEN validateField(field, value)
             ELSE CheckFields(fields, body, i + 1)

\* the rejection of a submit without the published check
SubmitErrorUnpublished(form, body, t) ==
    IF TruthyNum(form.settings.closeDate) /\ t > form.settings.closeDate
    THEN IF TruthyStr(form.settings.closedMessage)
         THEN <<form.settings.closedMessage>> ELSE <<"Form is closed">>
    ELSE CheckFields(form.fields, body, 1)

\* the rejection of a submit, NoError when the submit is accepted
SubmitError(form, body, t) ==
    IF ~form.published THEN <<"Form is not accepting submissions">>
    ELSE IF TruthyNum(form.settings.closeDate) /\ t > form.settings.closeDate
    THEN IF TruthyStr(form.settings.closedMessage)
         THEN <<form.settings.closedMessage>> ELSE <<"Form is closed">>
    ELSE CheckFields(form.fields, body, 1)

\* form.submissions += 1, forgotten
CountKept(form) == form

\* form.submissions += 1
CountSubmission(form) == [form EXCEPT !.submissions = @ + 1]

SubsOf(id) == {k \in DOMAIN subs : k[1] = id}

\* no request is being answered
NoResponse == Response("none", 0, NoBody, 0, NoError, 0)

FormsInit ==
    /\ now = 1
    /\ forms = <<>>
    /\ subs = <<>>
    /\ nextFormId = 1
    /\ nextSubId = 1
    /\ clean = {}
    /\ okSubmits = <<>>
    /\ resp = NoResponse
    /\ formOps = 0
    /\ formCalls = <<>>

\* requests are handled one after another: the next one is taken up when
\* the response to the last one has been sent, within the budget of requests
Ready ==
    /\ resp = NoResponse
    /\ formOps < MaxFormOps
    /\ formOps' = formOps + 1

SendResponse ==
    /\ resp # NoResponse
    /\ resp' = NoResponse
    /\ UNCHANGED <<now, forms, subs, nextFormId, nextSubId, clean, okSubmits, formOps>>

Tick ==
    /\ now < MaxTime
    /\ now' = now + 1
    /\ UNCHANGED <<forms, subs, nextFormId, nextSubId, clean, okSubmits, resp>>

\* POST /forms
CreateForm(body) ==
    IF ~TruthyStr(body.name)
    THEN /\ resp' = Response("create", 0, NoBody, 400, <<"Missing required field: name">>, 0)
         /\ UNCHANGED <<now, forms, subs, nextFormId, nextSubId, clean, okSubmits>>
    ELSE /\ nextFormId <= MaxForms
         /\ LET form == [id |-> nextFormId, name |-> body.name, fields |-> body.fields,
                         settings |-> IF body.hasSettings THEN body.settings ELSE DefaultSettings,
                         createdAt |-> now,
                         published |-> FALSE, submissions |-> 0]
            IN  /\ forms' = forms @@ (form.id :> form)
                /\ resp' = Response("create", form.id, NoBody, 200, NoError, 0)
         /\ nextFormId' = nextFormId + 1
         /\ clean' = clean \cup {nextFormId}
         /\ okSubmits' = okSubmits @@ (nextFormId :> 0)
         /\ UNCHANGED <<now, subs, nextSubId>>

\* GET /forms/:id
GetForm(id) ==
    /\ resp' = IF id \in DOMAIN forms
               THEN Response("get", id, NoBody, 200, NoError, 0)
               ELSE Response("get", id, NoBody, 404, <<"Form not found">>, 0)
    /\ UNCHANGED <<now, forms, subs, nextFormId, nextSubId, clean, okSubmits>>

\* {...existing, ...updates}: every key the body carries replaces the stored one
Spread(existing, updates) ==
    [existing EXCEPT
        !.id = IF "id" \in updates.keys THEN updates.id ELSE @,
        !.name = IF "name" \in updates.keys THEN updates.name ELSE @,
        !.createdAt = IF "createdAt" \in updates.keys THEN updates.createdAt ELSE @,
        !.published = IF "published" \in updates.keys THEN updates.published ELSE @,
        !.submissions = IF "submissions" \in updates.keys THEN updates.submissions ELSE @]

\* {...existing, ...updates} without the two lines that restore id and createdAt
MergeFormSpreadOnly(existing, updates) == Spread(existing, updates)

\* the merge of an update that also counts a submission
MergeFormCounting(existing, updates) ==
    [Spread(existing, updates) EXCEPT !.id = existing.id, !.createdAt = existing.createdAt,
                                      !.submissions = @ + 1]

\* {...existing, ...updates, id: existing.id, createdAt: existing.createdAt}
\* (updatedAt, which no handler reads, is not kept in the model)
MergeForm(existing, updates) ==
    [Spread(existing, updates) EXCEPT !.id = existing.id, !.createdAt = existing.createdAt]

\* PUT /forms/:id; the form is written under form:{form.id}
UpdateForm(id, updates) ==
    IF id \notin DOMAIN forms
    THEN /\ resp' = Response("update", id, NoBody, 404, <<"Form not found">>, 0)
         /\ UNCHANGED <<now, forms, subs, nextFormId, nextSubId, clean, okSubmits>>
    ELSE /\ LET form == MergeForm(forms[id], updates)
            IN  forms' = (form.id :> form) @@ forms
         /\ clean' = clean \ {id}
         /\ resp' = Response("update", id, NoBody, 200, NoError, 0)
         /\ UNCHANGED <<now, subs, nextFormId, nextSubId, okSubmits>>

Without(f, ks) == [k \in DOMAIN f \ ks |-> f[k]]

\* DELETE /forms/:id without the deletion of the submissions of the form
DeleteFormOnly(id) ==
    /\ forms' = Without(forms, {id})
    /\ clean' = clean \ {id}
    /\ resp' = Response("delete", id, NoBody, 200, NoError, 0)
    /\ UNCHANGED <<now, subs, nextFormId, nextSubId, okSubmits>>

\* DELETE /forms/:id: the form record, then every key that
\* list({ prefix: submission:{id}: }) returns
DeleteForm(id) ==
    /\ forms' = Without(forms, {id})
    /\ subs' = Without(subs, SubsOf(id))
    /\ clean' = clean \ {id}
    /\ resp' = Response("delete", id, NoBody, 200, NoError, 0)
    /\ UNCHANGED <<now, nextFormId, nextSubId, okSubmits>>

\* POST /forms/:id/publish and /unpublish
SetPublished(id, flag) ==
    IF id \notin DOMAIN forms
    THEN /\ resp' = Response(IF flag THEN "publish" ELSE "unpublish", id, NoBody,
                             404, <<"Form not found">>, 0)
         /\ UNCHANGED <<now, forms, subs, nextFormId, nextSubId, clean, okSubmits>>
    ELSE /\ forms' = [forms EXCEPT ![id].published = flag]
         /\ resp' = Response(IF flag THEN "publish" ELSE "unpublish", id, NoBody,
                             200, NoError, 0)
         /\ UNCHANGED <<now, subs, nextFormId, nextSubId, clean, okSubmits>>

\* the status of the response without the try / catch around fetch
WebhookUncaught(outcome, status) == IF outcome = "failed" THEN 500 ELSE status

\* try { await fetch(webhookUrl, ...) } catch (e) { console.error(...) }:
\* the status of the response after the webhook call
AfterWebhook(outcome, status) == status

\* POST /forms/:id/submit; fetched is the outcome of the webhook call, made
\* when the form has a webhookUrl: fetch resolves ("ok") or throws ("failed")
SubmitForm(id, body, fetched) ==
    IF id \notin DOMAIN forms
    THEN /\ resp' = Response("submit", id, body, 404, <<"Form not found">>, 0)
         /\ UNCHANGED <<now, forms, subs, nextFormId, nextSubId, clean, okSubmits>>
    ELSE LET form == forms[id]
             error == SubmitError(form, body, now)
         IN  IF error # NoError
             THEN /\ resp' = Response("submit", id, body, 400, error, 0)
                  /\ UNCHANGED <<now, forms, subs, nextFormId, nextSubId, clean, okSubmits>>
             ELSE /\ nextSubId <= MaxSubs
                  /\ subs' = subs @@ (<<id, nextSubId>> :>
                                 [id |-> nextSubId, formId |-> id, data |-> body])
                  /\ forms' = [forms EXCEPT ![id] = CountSubmission(form)]
                  /\ nextSubId' = nextSubId + 1
                  /\ okSubmits' = [okSubmits EXCEPT ![id] = @ + 1]
                  /\ LET webhook == IF TruthyStr(form.settings.webhookUrl)
                                    THEN fetched ELSE "none"
                         status == IF TruthyStr(form.settings.redirectUrl) THEN 302 ELSE 200
                     IN  resp' = [Response("submit", id, body,
                                           AfterWebhook(webhook, status), NoError, nextSubId)
                                     EXCEPT !.webhook = webhook]
                  /\ UNCHANGED <<now, nextFormId, clean>>

\* DELETE /forms/:formId/submissions/:subId
DeleteSubmission(formId, subId) ==
    /\ subs' = Without(subs, {<<formId, subId>>})
    /\ clean' = clean \ {formId}
    /\ resp' = Response("deleteSubmission", formId, NoBody, 200, NoError, 0)
    /\ UNCHANGED <<now, forms, nextFormId, nextSubId, okSubmits>>

FormsNext ==
    \/ Ready /\ Tick /\ FormsOnly
    \/ SendResponse /\ FormsOnly
    \/ \E body \in
          { FormBody(NoStr, <<EmailValidated>>, FALSE, DefaultSettings),
            FormBody("Signup", <<Field("email", "email", "Email", TRUE, NoValidation, 1)>>,
                     FALSE, DefaultSettings),
            FormBody("Signup", <<EmailValidated>>, TRUE,
                     [DefaultSettings EXCEPT !.closeDate = 1, !.closedMessage = "Closed!",
                                             !.redirectUrl = "https://next"]),
            FormBody("Signup",
                     <<Field("email", "email", "Email", TRUE,
                             [EmptyValidation EXCEPT !.customMessage = "Bad address"], 1)>>, TRUE,
                     [DefaultSettings EXCEPT !.closeDate = 0, !.closedMessage = "Closed!"]),
            FormBody("Signup", <<EmailValidated, NameField>>, TRUE,
                     [DefaultSettings EXCEPT !.closeDate = 1, !.webhookUrl = "https://hook"]) } :
          Ready /\ CreateForm(body) /\ FormsOnly
    \/ \E id \in UrlIds : Ready /\ GetForm(id) /\ FormsOnly
    \/ \E id \in UrlIds,
          updates \in { UpdateBody({"id", "createdAt", "name"}),
                        UpdateBody({"published", "submissions"}) } :
          Ready /\ UpdateForm(id, updates) /\ FormsOnly
    \/ \E id \in UrlIds : Ready /\ DeleteForm(id) /\ FormsOnly
    \/ \E id \in UrlIds : Ready /\ SetPublished(id, TRUE) /\ FormsOnly
    \/ \E id \in UrlIds : Ready /\ SetPublished(id, FALSE) /\ FormsOnly
    \/ \E id \in UrlIds,
          body \in { SubmitBody(Undefined, Undefined),
                     SubmitBody(Str(<<"n", "o", "t", "-", "a", "n", "-", "e", "m", "a", "i", "l">>),
                                Undefined),
                     SubmitBody(Str(GoodEmail), Undefined),
                     SubmitBody(Str(GoodEmail), Str(<<"A", "l">>)),
                     SubmitBody(Str(GoodEmail), Str(<<"A">>)) },
          fetched \in {"ok", "failed"} :
          Ready /\ SubmitForm(id, body, fetched) /\ FormsOnly
    \/ \E id \in UrlIds, subId \in 1..MaxSubs :
          Ready /\ DeleteSubmission(id, subId) /\ FormsOnly

----------------------------------------------------------------------------
(* GET /forms/:id/export: the CSV encoding of one submission row           *)

Quote == "\""
Comma == ","

\* str.replace(/"/g, '""') as the identity
KeepQuotes(s) == s

\* str.replace(/"/g, '""')
RECURSIVE DoubleQuotes(_)
DoubleQuotes(s) ==
    IF s = <<>> THEN <<>>
    ELSE (IF Head(s) = Quote THEN <<Quote, Quote>> ELSE <<Head(s)>>) \o DoubleQuotes(Tail(s))

\* `"${String(v).replace(/"/g, '""')}"`
QuoteCell(v) == <<Quote>> \o DoubleQuotes(ToStr(v)) \o <<Quote>>

\* r.join(',')
RECURSIVE JoinCells(_)
JoinCells(cells) ==
    IF cells = <<>> THEN <<>>
    ELSE IF Len(cells) = 1 THEN cells[1]
    ELSE cells[1] \o <<Comma>> \o JoinCells(Tail(cells))

\* [sub.id, new Date(sub.createdAt).toISOString(), ...form.fields.map(...)]
\* for a form with the single field "email" (sub.data[f.id] || ''), each
\* cell quoted
ExportCells(sub) ==
    LET v == Lookup(sub.data, "email")
    IN  <<QuoteCell(sub.id), QuoteCell(sub.createdAt),
          QuoteCell(IF Truthy(v) THEN v ELSE Str(<<>>))>>

\* a CSV reader (RFC 4180) splitting one record into its cells
RECURSIVE ReadRecord(_, _, _, _, _)
ReadRecord(row, i, cur, inQuotes, acc) ==
    IF i > Len(row) THEN Append(acc, cur)
    ELSE IF inQuotes
    THEN IF row[i] = Quote
         THEN IF i < Len(row) /\ row[i + 1] = Quote
              THEN ReadRecord(row, i + 2, Append(cur, Quote), TRUE, acc)
              ELSE ReadRecord(row, i + 1, cur, FALSE, acc)
         ELSE ReadRecord(row, i + 1, Append(cur, row[i]), TRUE, acc)
    ELSE IF row[i] = Quote THEN ReadRecord(row, i + 1, cur, TRUE, acc)
    ELSE IF row[i] = Comma THEN ReadRecord(row, i + 1, <<>>, FALSE, Append(acc, cur))
    ELSE IF row[i] = "\n" THEN Append(acc, cur)
    ELSE ReadRecord(row, i + 1, Append(cur, row[i]), FALSE, acc)

ExportedSub(v) ==
    [id |-> Str(<<"s", "1">>), createdAt |-> Str(<<"T", "0">>),
     data |-> [email |-> v]]

\* no submission stored yet
NoSubmission == [t |-> "none", s |-> <<>>, n |-> 0]

CsvIdle ==
    /\ csvData = NoSubmission
    /\ csvCells = <<>>
    /\ csvRow = <<>>
    /\ csvParsed = <<>>

\* a submission whose value for the field is v is stored
StoreSubmission(v) ==
    /\ csvData = NoSubmission
    /\ csvData' = v
    /\ UNCHANGED <<csvCells, csvRow, csvParsed>>

\* the stored string value is one character longer
LongerValue(c) ==
    /\ csvData # NoSubmission
    /\ csvData.t = "string"
    /\ csvCells = <<>>
    /\ Len(csvData.s) < MaxLen
    /\ csvData' = Str(Append(csvData.s, c))
    /\ UNCHANGED <<csvCells, csvRow, csvParsed>>

ExportRow ==
    /\ csvData # NoSubmission
    /\ csvCells = <<>>
    /\ csvCells' = ExportCells(ExportedSub(csvData))
    /\ csvRow' = JoinCells(ExportCells(ExportedSub(csvData)))
    /\ UNCHANGED <<csvData, csvParsed>>

ReadRow ==
    /\ csvCells # <<>>
    /\ csvParsed = <<>>
    /\ csvParsed' = ReadRecord(csvRow, 1, <<>>, FALSE, <<>>)
    /\ UNCHANGED <<csvData, csvCells, csvRow>>

\* a submission starts from a missing value, the number 0 or 7 or the empty
\* string; longer strings are made of them character by character
CsvNext ==
    \/ \E v \in {Undefined, Num(0), Num(7), Str(<<>>)} : StoreSubmission(v) /\ CsvOnly
    \/ \E c \in {"a", "b", "c", Quote, Comma, "\n"} : LongerValue(c) /\ CsvOnly
    \/ ExportRow /\ CsvOnly
    \/ ReadRow /\ CsvOnly

\* the number of double quotes in a string
RECURSIVE CountQuotes(_)
CountQuotes(s) ==
    IF s = <<>> THEN 0 ELSE (IF Head(s) = Quote THEN 1 ELSE 0) + CountQuotes(Tail(s))

\* C5: the exported data cell of a string value is the value between two
\* double quotes with every double quote of the value doubled, reading the row
\* back by the CSV rule returns the value, and a"b,c is exported as "a""b,c".
C5_CsvRoundTrip ==
    (csvData.t = "string" /\ csvCells # <<>>) =>
        LET cell == csvCells[3] IN
        /\ Len(cell) = Len(csvData.s) + CountQuotes(csvData.s) + 2
        /\ cell[1] = Quote /\ cell[Len(cell)] = Quote
        /\ CountQuotes(cell) = 2 * CountQuotes(csvData.s) + 2
        /\ csvParsed # <<>> => (Len(csvParsed) = 3 /\ csvParsed[3] = csvData.s)
        /\ csvData.s = <<"a", Quote, "b", Comma, "c">> =>
               cell = <<Quote, "a", Quote, Quote, "b", Comma, "c", Quote>>

C5_Witness ==
    /\ csvData = Str(<<"a", Quote, "b", Comma, "c">>)
    /\ csvCells # <<>>
    /\ csvParsed # <<>>
    /\ csvParsed[3] = <<"a", Quote, "b", Comma, "c">>

----------------------------------------------------------------------------
(* Properties of the forms worker                                          *)

\* this step is the handling of a submit request for a stored form
SubmitStep == resp' # resp /\ resp'.op = "submit" /\ resp'.id \in DOMAIN forms
SubmittedForm == forms[resp'.id]
NothingStored == subs' = subs /\ forms' = forms

\* a close date is set and lies before the current time
PastCloseDate(form, t) == form.settings.closeDate # NoNum /\ t > form.settings.closeDate

Names(msg, label) == \E i \in 1..Len(msg) : msg[i] = label

\* C1: a submit to a stored form whose published flag is false returns 400
\* for every body and stores nothing.
C1_UnpublishedRejected ==
    [][(SubmitStep /\ ~SubmittedForm.published)
         => (resp'.status = 400 /\ NothingStored)]_vars

C1_Witness ==
    /\ resp.op = "submit" /\ resp.id \in DOMAIN forms
    /\ ~forms[resp.id].published
    /\ forms[resp.id].fields = <<EmailValidated>>
    /\ resp.body = SubmitBody(Str(GoodEmail), Undefined)
    /\ resp.status = 400
    /\ resp.error = <<"Form is not accepting submissions">>

\* the field passes the required check and the validation of the submit loop
FieldPasses(field, body) ==
    LET value == Lookup(body, field.id)
    IN  /\ ~(field.required /\ ~Truthy(value))
        /\ Truthy(value) => validateField(field, value) = NoError

\* C2 as stated: on a published, non-closed form, a submit without a value
\* for a required field is rejected with 400, the message names that field's
\* label, and nothing is stored.
C2_Original ==
    [][(SubmitStep /\ SubmittedForm.published /\ ~PastCloseDate(SubmittedForm, now))
         => \A i \in 1..Len(SubmittedForm.fields) :
              LET field == SubmittedForm.fields[i]
              IN  (field.required /\ Lookup(resp'.body, field.id) = Undefined)
                    => /\ resp'.status = 400
                       /\ Names(resp'.error, field.label)
                       /\ NothingStored]_vars

\* C2 amended: such a submit is rejected with 400 and nothing is stored; the
\* message names the field's label when every field before it in the form's
\* fields array passes its checks.
C2_RequiredRejected ==
    [][(SubmitStep /\ SubmittedForm.published /\ ~PastCloseDate(SubmittedForm, now))
         => \A i \in 1..Len(SubmittedForm.fields) :
              LET field == SubmittedForm.fields[i]
              IN  (field.required /\ Lookup(resp'.body, field.id) = Undefined)
                    => /\ resp'.status = 400
                       /\ NothingStored
                       /\ (\A j \in 1..(i - 1) : FieldPasses(SubmittedForm.fields[j], resp'.body))
                            => resp'.error = <<"Field \"", field.label, "\" is required">>]_vars

\* the second required field is missing, the first one is sent and valid
C2_Witness ==
    /\ resp.op = "submit" /\ resp.id \in DOMAIN forms
    /\ forms[resp.id].published
    /\ ~PastCloseDate(forms[resp.id], now)
    /\ forms[resp.id].fields = <<EmailValidated, NameField>>
    /\ resp.body = SubmitBody(Str(GoodEmail), Undefined)
    /\ resp.status = 400
    /\ resp.error = <<"Field \"", "Name", "\" is required">>

\* C3 as stated: on a published form whose one field is a required email
\* field, a submit whose value for it has not the shape local@domain.tld is
\* rejected with 400 and a message containing "valid email", however the
\* field was defined.
C3_Original ==
    [][(/\ SubmitStep /\ SubmittedForm.published
        /\ ~PastCloseDate(SubmittedForm, now)
        /\ Len(SubmittedForm.fields) = 1
        /\ SubmittedForm.fields[1].type = "email"
        /\ SubmittedForm.fields[1].required
        /\ Lookup(resp'.body, SubmittedForm.fields[1].id).t = "string"
        /\ Lookup(resp'.body, SubmittedForm.fields[1].id).s # <<>>
        /\ ~EmailRegexTest(Lookup(resp'.body, SubmittedForm.fields[1].id).s))
         => (resp'.status = 400 /\ Names(resp'.error, " must be a valid email"))]_vars

C6_Original ==
    [][(SubmitStep /\ SubmittedForm.published /\ PastCloseDate(SubmittedForm, now))
         => /\ resp'.status = 400
            /\ resp'.error = IF SubmittedForm.settings.closedMessage # NoStr
                             THEN <<SubmittedForm.settings.closedMessage>>
                             ELSE <<"Form is closed">>
            /\ NothingStored]_vars

\* the submission records this step adds to the store
NewSubmissions == DOMAIN subs' \ DOMAIN subs

\* this step answers a submit request with a rejection
RejectedSubmit == resp' # resp /\ resp'.op = "submit" /\ resp'.status \in {400, 404}

\* C15 as stated: a submission record is only ever added by a submit that
\* found the form, found it published, found it not past its close date (a
\* close date is set and lies before the current time) and passed the
\* required and validation checks; a rejected submit (404 or 400) leaves the
\* form record, its counter and the submissions unchanged.
C15_Original ==
    [][/\ \A k \in NewSubmissions :
             /\ SubmitStep /\ k[1] = resp'.id
             /\ SubmittedForm.published
             /\ ~PastCloseDate(SubmittedForm, now)
             /\ CheckFields(SubmittedForm.fields, resp'.body, 1) = NoError
       /\ RejectedSubmit => NothingStored]_vars

\* C15 with the close date read as the handler reads it (a closeDate of 0
\* is no close date): a submission record is only ever added by a submit
\* that found the form published, not closed and passed the field checks,
\* and a rejected submit stores nothing.
C15_StoredOnlyIfAccepted ==
    [][/\ \A k \in NewSubmissions :
             /\ SubmitStep /\ k[1] = resp'.id
             /\ SubmittedForm.published
             /\ ~(TruthyNum(SubmittedForm.settings.closeDate)
                    /\ now > SubmittedForm.settings.closeDate)
             /\ CheckFields(SubmittedForm.fields, resp'.body, 1) = NoError
       /\ RejectedSubmit => NothingStored]_vars

\* this step answers an update request
UpdateStep == resp' # resp /\ resp'.op = "update"

\* C16: an update of a stored form leaves its id and its createdAt as they
\* were, whatever the body carries, and stores it under the same key; an
\* update of an id that names no form returns 404 and writes nothing.
C16_UpdateKeepsIdentity ==
    [][UpdateStep =>
         IF resp'.id \in DOMAIN forms
         THEN /\ DOMAIN forms' = DOMAIN forms
              /\ forms'[resp'.id].id = forms[resp'.id].id
              /\ forms'[resp'.id].createdAt = forms[resp'.id].createdAt
         ELSE resp'.status = 404 /\ NothingStored]_vars

\* an update whose body carries id, createdAt and name was applied
C16_Witness ==
    /\ resp.op = "update" /\ resp.status = 200
    /\ forms[resp.id].name = "Renamed"
    /\ forms[resp.id].id = resp.id

\* this step answers a delete request for a form
DeleteStep == resp' # resp /\ resp'.op = "delete"

\* C17: after the delete of a form, a get of its id is NotFound (no form
\* record under the id), no submission of the form remains, and the forms
\* and submissions of other ids are as they were.
C17_DeleteRemovesForm ==
    [][DeleteStep =>
         /\ resp'.id \notin DOMAIN forms'
         /\ \A k \in DOMAIN subs' : k[1] # resp'.id
         /\ \A f \in DOMAIN forms \ {resp'.id} : f \in DOMAIN forms' /\ forms'[f] = forms[f]
         /\ DOMAIN forms' \subseteq DOMAIN forms
         /\ \A k \in DOMAIN subs :
               k[1] # resp'.id => k \in DOMAIN subs' /\ subs'[k] = subs[k]
         /\ DOMAIN subs' \subseteq DOMAIN subs]_vars

\* a form that had a submission was deleted while another form is stored
C17_Witness ==
    /\ resp.op = "delete"
    /\ resp.id \notin DOMAIN forms
    /\ resp.id \in DOMAIN okSubmits /\ okSubmits[resp.id] > 0
    /\ \E f \in DOMAIN forms : f # resp.id

\* C18: a submit whose webhook call fails stores its submission, counts it
\* and is answered with the success response or the redirect.
C18_WebhookFailureKept ==
    [][(SubmitStep /\ resp'.webhook = "failed") =>
         /\ resp'.status \in {200, 302}
         /\ <<resp'.id, resp'.subId>> \in NewSubmissions
         /\ subs'[<<resp'.id, resp'.subId>>].data = resp'.body
         /\ forms'[resp'.id].submissions = SubmittedForm.submissions + 1]_vars

\* a submit was stored and counted although its webhook call failed
C18_Witness ==
    /\ resp.op = "submit" /\ resp.webhook = "failed" /\ resp.status = 200
    /\ <<resp.id, resp.subId>> \in DOMAIN subs
    /\ resp.id \in DOMAIN forms /\ forms[resp.id].submissions = 1

\* the error of one field of a form for a body, NoError when it passes
FieldError(field, body) == CheckFields(<<field>>, body, 1)

\* a submit that reaches the field checks of a form with a failing field
FieldsRejected ==
    /\ SubmitStep
    /\ SubmittedForm.published
    /\ ~(TruthyNum(SubmittedForm.settings.closeDate) /\ now > SubmittedForm.settings.closeDate)
    /\ \E i \in 1..Len(SubmittedForm.fields) :
          FieldError(SubmittedForm.fields[i], resp'.body) # NoError

\* C29 as stated: when several fields of a submitted body fail, the error
\* returned is that of the failing field with the smallest order attribute,
\* whatever the position of the fields in the stored fields array.
C29_Original ==
    [][FieldsRejected =>
         LET fields == SubmittedForm.fields
             failing == {i \in 1..Len(fields) : FieldError(fields[i], resp'.body) # NoError}
             first == CHOOSE i \in failing : \A j \in failing : fields[i].order <= fields[j].order
         IN  resp'.status = 400 /\ resp'.error = FieldError(fields[first], resp'.body)]_vars

\* C29 with the fields taken in the order of the stored array: the error
\* returned is that of the failing field at the smallest array position.
C29_ArrayOrder ==
    [][FieldsRejected =>
         LET fields == SubmittedForm.fields
             failing == {i \in 1..Len(fields) : FieldError(fields[i], resp'.body) # NoError}
             first == CHOOSE i \in failing : \A j \in failing : i <= j
         IN  resp'.status = 400 /\ resp'.error = FieldError(fields[first], resp'.body)]_vars

----------------------------------------------------------------------------
(* validateField called by itself                                          *)

ValidateIdle ==
    validated = [called |-> FALSE, field |-> Field("email", "email", "Email", TRUE, NoValidation, 1), value |-> Undefined,
                 out |-> NoError]

\* validateField(field, value)
ValidateCall(field, value) ==
    validated' = [called |-> TRUE, field |-> field, value |-> value,
                  out |-> validateField(field, value)]

\* the fields validateField is called with: every type with no validation
\* object, with one that has no rule and with one rule each, each of them
\* without a customMessage, with an empty one and with "Custom!"; the values
\* it is called with: "abc", "Abcd", "7", "3", "a@b.com", "+1 (2)", 3 and 7
ValidateNext ==
    LET rules == { EmptyValidation,
                   [EmptyValidation EXCEPT !.min = 5],
                   [EmptyValidation EXCEPT !.max = 5],
                   [EmptyValidation EXCEPT !.minLength = 2],
                   [EmptyValidation EXCEPT !.maxLength = 3],
                   [EmptyValidation EXCEPT !.pattern = "^A"] }
        validations == { [r EXCEPT !.customMessage = m] :
                            r \in rules, m \in {NoStr, "", "Custom!"} }
        fields == { Field("f", type, "Label", FALSE, validation, 0) :
                      type \in {"text", "email", "phone", "number"},
                      validation \in validations \cup {NoValidation} }
        values == { Str(<<"a", "b", "c">>), Str(<<"A", "b", "c", "d">>), Str(<<"7">>),
                    Str(<<"3">>), Str(GoodEmail), Str(<<"+", "1", " ", "(", "2", ")">>),
                    Num(3), Num(7) }
    IN  \E field \in fields, value \in values : ValidateCall(field, value) /\ ValidateOnly

\* the last call of validateField reported a rule failure
RuleFailed == validated.called /\ validated.out # NoError

\* C19 as stated: when the field has a customMessage, every rule failure
\* (email, phone, not a number, min, max, minLength, maxLength, pattern)
\* returns exactly the customMessage; without one the message names the
\* label of the field.
C19_Original ==
    RuleFailed =>
        IF TruthyStr(validated.field.validation.customMessage)
        THEN validated.out = <<validated.field.validation.customMessage>>
        ELSE Names(validated.out, validated.field.label)

\* the value of the last call reads as no number for a field of type number
NotANumber ==
    validated.field.type = "number" /\ ParseFloat(ToStr(validated.value)).nan

\* C19 but for the not-a-number failure: every other rule failure returns
\* the customMessage when the field has a non-empty one; the not-a-number
\* failure and the failures of a field without one name the label.
C19_CustomMessageButNaN ==
    RuleFailed =>
        IF TruthyStr(validated.field.validation.customMessage) /\ ~NotANumber
        THEN validated.out = <<validated.field.validation.customMessage>>
        ELSE Names(validated.out, validated.field.label)

----------------------------------------------------------------------------
(* ABTestManager                                                           *)

\* session ids as sequences of UTF-16 code units:
\* "s1", "sess-1", "polygenelubricants"
SessionSess1 == <<115, 101, 115, 115, 45, 49>>
ABSessions ==
    { <<115, 49>>, SessionSess1,
      <<112, 111, 108, 121, 103, 101, 110, 101, 108, 117, 98, 114, 105, 99, 97, 110, 116, 115>> }
ABForms == {"f1"}

\* a 32-bit integer as two 16-bit halves (two's complement)
Word == 65536
Int32(hi, lo) == [hi |-> hi, lo |-> lo]

\* the loop of simpleHash from character i on:
\* hash = ((hash << 5) - hash) + char; hash = hash & hash
RECURSIVE HashFrom(_, _, _)
HashFrom(str, i, h) ==
    IF i > Len(str) THEN h
    ELSE LET low == 31 * h.lo + str[i]
         IN  HashFrom(str, i + 1, Int32((31 * h.hi + low \div Word) % Word, low % Word))

\* simpleHash: Math.abs of the 32-bit hash, which is 2^31 for -2^31
simpleHash(str) ==
    LET h == HashFrom(str, 1, Int32(0, 0))
    IN  IF h.hi < Word \div 2 THEN h
        ELSE IF h.lo = 0 THEN Int32(Word - h.hi, 0)
        ELSE Int32(Word - 1 - h.hi, Word - h.lo)

\* hash % totalWeight for a non-negative hash and a positive totalWeight
Mod32(h, w) == ((h.hi % w) * (Word % w) + (h.lo % w)) % w

Variant(id, weight) == [id |-> id, weight |-> weight]
NullVariant == "null"
NoTest == [id |-> 0, variants |-> <<>>, status |-> "none", endDate |-> NoNum,
           winningVariant |-> NoStr]

RECURSIVE SumWeights(_)
SumWeights(variants) ==
    IF variants = <<>> THEN 0 ELSE Head(variants).weight + SumWeights(Tail(variants))

\* the walk with threshold <= 0 where the code has threshold < 0
RECURSIVE WalkVariantsInclusive(_, _, _)
WalkVariantsInclusive(variants, i, threshold) ==
    IF i > Len(variants) THEN variants[1].id
    ELSE IF threshold - variants[i].weight <= 0 THEN variants[i].id
    ELSE WalkVariantsInclusive(variants, i + 1, threshold - variants[i].weight)

\* for (const variant of test.variants) { threshold -= variant.weight; ... }
RECURSIVE WalkVariants(_, _, _)
WalkVariants(variants, i, threshold) ==
    IF i > Len(variants) THEN variants[1].id
    ELSE IF threshold - variants[i].weight < 0 THEN variants[i].id
    ELSE WalkVariants(variants, i + 1, threshold - variants[i].weight)

\* the walk started from a threshold that moves with the clock
ABGetVariantByTime(test, sessionId) ==
    IF test.status # "running" THEN NullVariant
    ELSE LET totalWeight == SumWeights(test.variants)
         IN  IF totalWeight = 0 THEN test.variants[1].id
             ELSE WalkVariants(test.variants, 1,
                               (Mod32(simpleHash(sessionId), totalWeight) + abNow) % totalWeight)

\* getVariant without the test of the status: null only for an absent test
ABGetVariantAnyStatus(test, sessionId) ==
    IF test = NoTest THEN NullVariant
    ELSE LET totalWeight == SumWeights(test.variants)
         IN  IF totalWeight = 0 THEN test.variants[1].id
             ELSE WalkVariants(test.variants, 1, Mod32(simpleHash(sessionId), totalWeight))

\* getVariant on the stored test (NoTest when the key is absent); with a
\* total weight of 0 the threshold is NaN, no comparison succeeds and the
\* first variant is returned
ABGetVariant(test, sessionId) ==
    IF test.status # "running" THEN NullVariant
    ELSE LET totalWeight == SumWeights(test.variants)
         IN  IF totalWeight = 0 THEN test.variants[1].id
             ELSE WalkVariants(test.variants, 1, Mod32(simpleHash(sessionId), totalWeight))

ABStored(formId) == IF formId \in DOMAIN abTests THEN abTests[formId] ELSE NoTest

NotCalled == [n |-> 0, returned |-> {}]

ABIdle ==
    /\ abTests = <<>>
    /\ abNextId = 1
    /\ abNow = 1
    /\ abSeen = [f \in ABForms |-> [s \in ABSessions |-> NotCalled]]
    /\ abRet = [formId |-> "", sessionId |-> <<>>, variant |-> NullVariant]

ABTick ==
    /\ abNow < MaxABTime
    /\ abNow' = abNow + 1
    /\ UNCHANGED <<abTests, abNextId, abSeen, abRet>>

\* createTest
ABCreateTest(formId, variants, status) ==
    /\ abNextId <= MaxABTests
    /\ abTests' = (formId :> [id |-> abNextId, variants |-> variants, status |-> status,
                              endDate |-> NoNum, winningVariant |-> NoStr]) @@ abTests
    /\ abNextId' = abNextId + 1
    /\ abSeen' = [abSeen EXCEPT ![formId] = [s \in ABSessions |-> NotCalled]]
    /\ UNCHANGED <<abNow, abRet>>

\* getVariant
ABGetVariantCall(formId, sessionId) ==
    LET variant == ABGetVariant(ABStored(formId), sessionId)
    IN  /\ abRet' = [formId |-> formId, sessionId |-> sessionId, variant |-> variant]
        /\ abSeen' = [abSeen EXCEPT ![formId][sessionId] =
                         [n |-> IF @.n < 2 THEN @.n + 1 ELSE 2,
                          returned |-> @.returned \cup {variant}]]
        /\ UNCHANGED <<abTests, abNextId, abNow>>

\* endTest
ABEndTest(formId, winningVariant) ==
    IF formId \notin DOMAIN abTests
    THEN UNCHANGED abVars
    ELSE /\ abTests' = [abTests EXCEPT ![formId].status = "completed",
                                       ![formId].endDate = abNow,
                                       ![formId].winningVariant = winningVariant]
         /\ abSeen' = [abSeen EXCEPT ![formId] = [s \in ABSessions |-> NotCalled]]
         /\ UNCHANGED <<abNextId, abNow, abRet>>

ABNext ==
    \/ ABTick /\ ABOnly
    \/ \E f \in ABForms,
          vs \in { <<Variant("A", 1), Variant("B", 1)>>,
                   <<Variant("B", 1), Variant("A", 1)>>,
                   <<Variant("A", 3), Variant("B", 1), Variant("C", 2)>>,
                   <<Variant("A", 0), Variant("B", 0)>> },
          st \in {"running", "draft"} :
          ABCreateTest(f, vs, st) /\ ABOnly
    \/ \E f \in ABForms, s \in ABSessions : ABGetVariantCall(f, s) /\ ABOnly
    \/ \E f \in ABForms, w \in {NoStr, "A"} : ABEndTest(f, w) /\ ABOnly

PrefixWeight(variants, k) == SumWeights(SubSeq(variants, 1, k))

\* the variant of the residue r: the one at the smallest index k with
\* r < w_1 + ... + w_k
VariantOfResidue(variants, r) ==
    variants[CHOOSE k \in 1..Len(variants) :
                /\ r < PrefixWeight(variants, k)
                /\ \A j \in 1..(k - 1) : r >= PrefixWeight(variants, j)].id

\* C28: for a running test whose variants all have positive weights, with
\* sum W, getVariant returns the variant at the smallest index k with
\* hash(sessionId) mod W < w_1 + ... + w_k, which is one of the variants of
\* the test, and of the residues 0..W-1 exactly w_i lead to variant i.
C28_WeightedWalk ==
    [][\A f \in ABForms, s \in ABSessions :
         LET test == ABStored(f)
             W == SumWeights(test.variants)
         IN  (/\ ABGetVariantCall(f, s)
              /\ test.status = "running"
              /\ \A i \in 1..Len(test.variants) : test.variants[i].weight > 0)
             => /\ abRet'.variant = VariantOfResidue(test.variants, Mod32(simpleHash(s), W))
                /\ \E i \in 1..Len(test.variants) : abRet'.variant = test.variants[i].id
                /\ \A i \in 1..Len(test.variants) :
                      Cardinality({r \in 0..(W - 1) :
                                     WalkVariants(test.variants, 1, r) = test.variants[i].id})
                          = test.variants[i].weight]_vars

\* a session got the third variant of a running test with the weights 3, 1, 2
C28_Witness ==
    \E f \in ABForms :
        /\ ABStored(f).status = "running"
        /\ Len(ABStored(f).variants) = 3
        /\ abRet = [formId |-> f, sessionId |-> SessionSess1, variant |-> "C"]

\* C20: getVariant returns null whenever the form has no stored test or the
\* stored test is not running; a test that endTest completed stays
\* completed until createTest stores a new one for the form, so every
\* getVariant in between returns null for every session.
C20_NullUnlessRunning ==
    [][\A f \in ABForms :
         /\ \A s \in ABSessions :
               (ABGetVariantCall(f, s) /\ ABStored(f).status # "running")
                   => abRet'.variant = NullVariant
         /\ ABStored(f).status = "completed"
               => \/ f \in DOMAIN abTests' /\ abTests'[f].status = "completed"
                  \/ abNextId' = abNextId + 1 /\ abTests'[f].id = abNextId]_vars

\* after endTest every session has called getVariant and got null
C20_Witness ==
    \E f \in ABForms :
        /\ ABStored(f).status = "completed" /\ ABStored(f).endDate # NoNum
        /\ \A s \in ABSessions : abSeen[f][s].n >= 1 /\ abSeen[f][s].returned = {NullVariant}

----------------------------------------------------------------------------
(* FormABTestManager                                                       *)

FabForms == {"f1"}
FabVariantIds == <<"A", "B">>
\* config.trafficSplit when absent
NoSplit == <<>>

\* test.variants.find(v => v.id === id): its index, 0 when there is none
FindVariant(variants, id) ==
    IF \E i \in 1..Len(variants) : variants[i].id = id
    THEN CHOOSE i \in 1..Len(variants) :
            variants[i].id = id /\ \A j \in 1..(i - 1) : variants[j].id # id
    ELSE 0

\* the traffic split walk: the first variant whose cumulative traffic
\* reaches random, the first variant when none does
RECURSIVE SelectVariant(_, _, _, _)
SelectVariant(variants, i, cumulative, random) ==
    IF i > Len(variants) THEN 1
    ELSE IF random <= cumulative + variants[i].traffic THEN i
    ELSE SelectVariant(variants, i + 1, cumulative + variants[i].traffic, random)

NoAssignment == ""

\* the lookup of the assignment record, skipped
FabExistingIgnored(testId, sessionId) == NoAssignment

\* await this.kv.get(assignmentKey)
FabExisting(testId, sessionId) ==
    IF <<testId, sessionId>> \in DOMAIN fabAssign
    THEN fabAssign[<<testId, sessionId>>] ELSE NoAssignment

FabIdle ==
    /\ fabTests = <<>>
    /\ fabFormTest = <<>>
    /\ fabAssign = <<>>
    /\ fabNextId = 1
    /\ fabOps = 0
    /\ fabGiven = <<>>
    /\ fabRet = [formId |-> "", sessionId |-> "", testId |-> 0, variantId |-> NullVariant]
    /\ fabCalls = <<>>

\* createTest; the traffic of variant i is
\* config.trafficSplit?.[i] || 100 / config.variants.length
FabCreateTest(formId, split) ==
    /\ fabNextId <= MaxFabTests
    /\ fabTests' = (fabNextId :>
           [id |-> fabNextId, formId |-> formId,
            variants |-> [i \in 1..Len(FabVariantIds) |->
                             [id |-> FabVariantIds[i],
                              traffic |-> IF split # NoSplit /\ i <= Len(split) /\ split[i] # 0
                                          THEN split[i] ELSE 100 \div Len(FabVariantIds),
                              views |-> 0, conversions |-> 0, revenue |-> 0]],
            status |-> "running"]) @@ fabTests
    /\ fabFormTest' = (formId :> fabNextId) @@ fabFormTest
    /\ fabNextId' = fabNextId + 1
    /\ UNCHANGED <<fabAssign, fabGiven, fabRet>>

FabReturn(formId, sessionId, testId, variantId) ==
    [formId |-> formId, sessionId |-> sessionId, testId |-> testId, variantId |-> variantId]

\* a test that takes new sessions whatever its status
AnyStatus(test) == TRUE

\* test.status !== 'running' ends getVariant for a session without a record
IsRunning(test) == test.status = "running"

\* recordView counting the view twice
WithTwoViews(test, i) == [test EXCEPT !.variants[i].views = @ + 2]

\* the test after recordView / recordConversion of a variant it holds
WithView(test, i) == [test EXCEPT !.variants[i].views = @ + 1]
WithConversion(test, i, revenue) ==
    [test EXCEPT !.variants[i].conversions = @ + 1,
                 !.variants[i].revenue = IF TruthyNum(revenue) THEN @ + revenue ELSE @]

\* getVariant (with the recordView call it ends with)
FabGetVariant(formId, sessionId, random) ==
    IF formId \notin DOMAIN fabFormTest
    THEN /\ fabRet' = FabReturn(formId, sessionId, 0, NullVariant)
         /\ UNCHANGED <<fabTests, fabFormTest, fabAssign, fabNextId, fabGiven>>
    ELSE LET testId == fabFormTest[formId]
             key == <<testId, sessionId>>
             existing == FabExisting(testId, sessionId)
             test == fabTests[testId]
         IN  IF existing # NoAssignment
             THEN /\ fabRet' = FabReturn(formId, sessionId, testId,
                                  IF FindVariant(test.variants, existing) # 0
                                  THEN test.variants[FindVariant(test.variants, existing)].id
                                  ELSE NullVariant)
                  /\ fabGiven' = IF key \in DOMAIN fabGiven
                                 THEN [fabGiven EXCEPT ![key].calls = 2]
                                 ELSE fabGiven
                  /\ UNCHANGED <<fabTests, fabFormTest, fabAssign, fabNextId>>
             ELSE IF ~IsRunning(test)
             THEN /\ fabRet' = FabReturn(formId, sessionId, testId, NullVariant)
                  /\ UNCHANGED <<fabTests, fabFormTest, fabAssign, fabNextId, fabGiven>>
             ELSE LET i == SelectVariant(test.variants, 1, 0, random)
                      selected == test.variants[i]
                  IN  /\ fabAssign' = (key :> selected.id) @@ fabAssign
                      /\ fabTests' = [fabTests EXCEPT ![testId] = WithView(test, i)]
                      /\ fabGiven' = IF key \in DOMAIN fabGiven
                                     THEN [fabGiven EXCEPT ![key].calls = 2]
                                     ELSE (key :> [variantId |-> selected.id, calls |-> 1])
                                          @@ fabGiven
                      /\ fabRet' = FabReturn(formId, sessionId, testId, selected.id)
                      /\ UNCHANGED <<fabFormTest, fabNextId>>

\* recordView
FabRecordView(testId, variantId) ==
    IF testId \notin DOMAIN fabTests \/ FindVariant(fabTests[testId].variants, variantId) = 0
    THEN UNCHANGED fabStore
    ELSE LET i == FindVariant(fabTests[testId].variants, variantId)
         IN  /\ fabTests' = [fabTests EXCEPT ![testId] = WithView(@, i)]
             /\ UNCHANGED <<fabFormTest, fabAssign, fabNextId, fabGiven, fabRet>>

\* recordConversion
FabRecordConversion(testId, variantId, revenue) ==
    IF testId \notin DOMAIN fabTests \/ FindVariant(fabTests[testId].variants, variantId) = 0
    THEN UNCHANGED fabStore
    ELSE LET i == FindVariant(fabTests[testId].variants, variantId)
         IN  /\ fabTests' = [fabTests EXCEPT ![testId] = WithConversion(@, i, revenue)]
             /\ UNCHANGED <<fabFormTest, fabAssign, fabNextId, fabGiven, fabRet>>

\* stopTest
FabStopTest(testId) ==
    IF testId \notin DOMAIN fabTests
    THEN UNCHANGED fabStore
    ELSE /\ fabTests' = [fabTests EXCEPT ![testId].status = "stopped"]
         /\ UNCHANGED <<fabFormTest, fabAssign, fabNextId, fabGiven, fabRet>>

\* the store drops an assignment record whose expirationTtl has run out
FabExpireAssignment(key) ==
    /\ key \in DOMAIN fabAssign
    /\ fabAssign' = Without(fabAssign, {key})
    /\ fabGiven' = Without(fabGiven, {key})
    /\ UNCHANGED <<fabTests, fabFormTest, fabNextId, fabRet>>

FabTestIds == 1..MaxFabTests

\* one call of the manager, within the budget of calls
FabCall(call) ==
    /\ fabOps < MaxFabOps
    /\ fabOps' = fabOps + 1
    /\ call

\* config.trafficSplit is absent or one percentage per variant, r stands
\* for Math.random() * 100, the revenue of a conversion is absent or an amount
FabNext ==
    \/ \E f \in FabForms, split \in {NoSplit, <<70, 30>>, <<0, 100>>} :
          FabCall(FabCreateTest(f, split)) /\ FabOnly
    \/ \E f \in FabForms, s \in {"s1", "s2"}, r \in {0, 60, 99} :
          FabCall(FabGetVariant(f, s, r)) /\ FabOnly
    \/ \E t \in FabTestIds, v \in {"A", "B", "Z"} : FabCall(FabRecordView(t, v)) /\ FabOnly
    \/ \E t \in FabTestIds, v \in {"A", "B", "Z"}, r \in {NoNum, 5} :
          FabCall(FabRecordConversion(t, v, r)) /\ FabOnly
    \/ \E t \in FabTestIds : FabCall(FabStopTest(t)) /\ FabOnly
    \/ \E t \in FabTestIds, s \in {"s1", "s2"} :
          FabExpireAssignment(<<t, s>>) /\ UNCHANGED fabOps /\ FabOnly

\* getVariant calls one after another on a test that is created and later
\* stopped, with assignment records that expire
FabAssignNext ==
    \/ \E f \in FabForms, split \in {NoSplit, <<70, 30>>} :
          FabCall(FabCreateTest(f, split)) /\ FabOnly
    \/ \E f \in FabForms, s \in {"s1", "s2"}, r \in {0, 60, 99} :
          FabCall(FabGetVariant(f, s, r)) /\ FabOnly
    \/ \E t \in DOMAIN fabTests :
          IsRunning(fabTests[t]) /\ FabCall(FabStopTest(t)) /\ FabOnly
    \/ \E t \in FabTestIds, s \in {"s1", "s2"} :
          FabExpireAssignment(<<t, s>>) /\ UNCHANGED fabOps /\ FabOnly

\* n calls of recordView (kind "view"), or n calls of recordConversion without
\* a revenue (kind "conversion"), in a row for one variant
FabRecordInARow(testId, variantId, kind, n) ==
    IF testId \notin DOMAIN fabTests \/ FindVariant(fabTests[testId].variants, variantId) = 0
    THEN UNCHANGED fabStore
    ELSE LET i == FindVariant(fabTests[testId].variants, variantId)
         IN  /\ fabTests' = IF kind = "view"
                            THEN [fabTests EXCEPT ![testId].variants[i].views = @ + n]
                            ELSE [fabTests EXCEPT ![testId].variants[i].conversions = @ + n]
             /\ UNCHANGED <<fabFormTest, fabAssign, fabNextId, fabGiven, fabRet>>

\* v.views > 0 ? (v.conversions / v.views) * 100 : 0
ConversionRate(v) == IF v.views > 0 THEN Ratio(100 * v.conversions, v.views) ELSE Zero

\* a.conversionRate < b.conversionRate, both with positive denominators
LowerRate(a, b) ==
    ConversionRate(a).num * ConversionRate(b).den < ConversionRate(b).num * ConversionRate(a).den

\* the variant that getResults marks: sorted[0] of the stable sort by
\* descending conversionRate, when it has views >= 100 and conversions >= 10
IsWinner(variants, i) ==
    /\ \A j \in 1..Len(variants) :
          IF j < i THEN LowerRate(variants[j], variants[i])
          ELSE ~LowerRate(variants[i], variants[j])
    /\ variants[i].views >= 100 /\ variants[i].conversions >= 10

\* getResults of a stored test: the variants of the result
getResults(test) ==
    [i \in 1..Len(test.variants) |->
        LET v == test.variants[i]
        IN  [id |-> v.id, views |-> v.views, conversions |-> v.conversions,
             conversionRate |-> ConversionRate(v), revenue |-> v.revenue,
             isWinner |-> IsWinner(test.variants, i),
             confidence |-> IF ~IsWinner(test.variants, i) THEN Zero
                            ELSE IF 50 + v.views \div 10 >= 95 THEN Ratio(95, 1)
                            ELSE Ratio(500 + v.views, 10)]]

\* the calls behind the results of a test: it is created, then views and
\* conversions of its variants are recorded, one or many at a time
FabResultsNext ==
    \/ \E f \in FabForms : FabCall(FabCreateTest(f, NoSplit)) /\ FabOnly
    \/ \E t \in FabTestIds, v \in {"A", "B"}, n \in {1, 100} :
          FabCall(FabRecordInARow(t, v, "view", n)) /\ FabOnly
    \/ \E t \in FabTestIds, v \in {"A", "B"}, n \in {1, 10} :
          FabCall(FabRecordInARow(t, v, "conversion", n)) /\ FabOnly

\* the variants of a test that meet the floor of 100 views and 10 conversions
MeetFloor(test) ==
    {i \in 1..Len(test.variants) :
        test.variants[i].views >= 100 /\ test.variants[i].conversions >= 10}

\* C21 as stated: getResults marks as winner the variant with the highest
\* conversion rate among the variants that meet the floor (views >= 100 and
\* conversions >= 10): when at least one variant meets the floor exactly one
\* variant is the winner, it has the highest rate among those that meet the
\* floor, and a variant below the floor is never the winner.
C21_Original ==
    \A t \in DOMAIN fabTests :
        LET test == fabTests[t]
            results == getResults(test)
            winners == {i \in 1..Len(results) : results[i].isWinner}
        IN  /\ winners \subseteq MeetFloor(test)
            /\ MeetFloor(test) # {} =>
                  /\ Cardinality(winners) = 1
                  /\ \A i \in winners, j \in MeetFloor(test) :
                        ~LowerRate(test.variants[i], test.variants[j])

\* C21 with the winner as the code picks it: the variant with the highest
\* conversion rate of all (the first of them in the stored order) is the
\* winner when it meets the floor; otherwise the result has no winner, also
\* when another variant meets the floor.
C21_TopRateOrNone ==
    \A t \in DOMAIN fabTests :
        LET test == fabTests[t]
            results == getResults(test)
            winners == {i \in 1..Len(results) : results[i].isWinner}
            top == CHOOSE i \in 1..Len(results) :
                      /\ \A j \in 1..Len(results) : ~LowerRate(test.variants[i], test.variants[j])
                      /\ \A j \in 1..(i - 1) : LowerRate(test.variants[j], test.variants[i])
        IN  winners = IF top \in MeetFloor(test) THEN {top} ELSE {}

\* getVariant of call c begins: kv.get of abtest:form:{formId} resolves, and
\* the call returns null if there is no test id
FabGetVariantBegins(c, formId, sessionId) ==
    /\ c \notin DOMAIN fabCalls
    /\ fabCalls' =
          (c :> [formId |-> formId, sessionId |-> sessionId,
                 testId |-> IF formId \in DOMAIN fabFormTest THEN fabFormTest[formId] ELSE 0,
                 await |-> IF formId \in DOMAIN fabFormTest THEN "assignment" ELSE "done",
                 existing |-> NoAssignment, selected |-> NoAssignment,
                 test |-> [variants |-> <<>>, status |-> "none"],
                 variantId |-> NullVariant])
          @@ fabCalls
    /\ UNCHANGED <<fabTests, fabAssign>>

\* a kv.get of call c resolves: the assignment record, the test of a known
\* assignment, the test to assign from (random stands for Math.random() *
\* 100), or the test that recordView updates
FabGetVariantReads(c, random) ==
    /\ c \in DOMAIN fabCalls
    /\ LET call == fabCalls[c]
           test == fabTests[call.testId]
       IN  CASE call.await = "assignment" ->
                  LET existing == FabExisting(call.testId, call.sessionId)
                  IN  fabCalls' = [fabCalls EXCEPT
                          ![c].existing = existing,
                          ![c].await = IF existing # NoAssignment THEN "known" ELSE "test"]
             [] call.await = "known" ->
                  fabCalls' = [fabCalls EXCEPT
                      ![c].variantId = IF FindVariant(test.variants, call.existing) # 0
                                       THEN call.existing ELSE NullVariant,
                      ![c].await = "done"]
             [] call.await = "test" ->
                  IF test.status # "running"
                  THEN fabCalls' = [fabCalls EXCEPT ![c].await = "done"]
                  ELSE fabCalls' = [fabCalls EXCEPT
                          ![c].selected =
                              test.variants[SelectVariant(test.variants, 1, 0, random)].id,
                          ![c].await = "putAssignment"]
             [] call.await = "view" ->
                  fabCalls' = [fabCalls EXCEPT ![c].test = test, ![c].await = "putView"]
             [] OTHER -> FALSE
    /\ UNCHANGED <<fabTests, fabAssign>>

\* a kv.put of call c is done: the assignment record, or the test with the
\* view counted on the copy that recordView read; getVariant then returns
FabGetVariantWrites(c) ==
    /\ c \in DOMAIN fabCalls
    /\ LET call == fabCalls[c]
       IN  CASE call.await = "putAssignment" ->
                  /\ fabAssign' = (<<call.testId, call.sessionId>> :> call.selected)
                                      @@ fabAssign
                  /\ fabCalls' = [fabCalls EXCEPT ![c].await = "view"]
                  /\ UNCHANGED fabTests
             [] call.await = "putView" ->
                  /\ fabTests' =
                        IF FindVariant(call.test.variants, call.selected) = 0 THEN fabTests
                        ELSE [fabTests EXCEPT ![call.testId] =
                                 WithView(call.test,
                                          FindVariant(call.test.variants, call.selected))]
                  /\ fabCalls' = [fabCalls EXCEPT ![c].variantId = call.selected,
                                                  ![c].await = "done"]
                  /\ UNCHANGED fabAssign
             [] OTHER -> FALSE

\* a test is created and stopped by calls that run alone; up to MaxCalls
\* calls of getVariant take their steps in any order
FabOverlapNext ==
    \/ \E f \in FabForms : FabCall(FabCreateTest(f, NoSplit)) /\ FabOnly
    \/ \E t \in FabTestIds : FabCall(FabStopTest(t)) /\ FabOnly
    \/ \E c \in 1..MaxCalls, f \in FabForms, s \in {"s1", "s2"} :
          FabGetVariantBegins(c, f, s) /\ FabOverlapOnly
    \/ \E c \in 1..MaxCalls, r \in {0, 60} : FabGetVariantReads(c, r) /\ FabOverlapOnly
    \/ \E c \in 1..MaxCalls : FabGetVariantWrites(c) /\ FabOverlapOnly

\* all views counted for the variants of a test
TotalViews(test) ==
    LET Upto[i \in 0..Len(test.variants)] ==
            IF i = 0 THEN 0 ELSE Upto[i - 1] + test.variants[i].views
    IN  Upto[Len(test.variants)]

\* two calls of getVariant for one form and session have returned a variant,
\* and no other call was made
ReturnedPair(c1, c2) ==
    /\ DOMAIN fabCalls = {c1, c2} /\ c1 # c2
    /\ fabCalls[c1].formId = fabCalls[c2].formId
    /\ fabCalls[c1].sessionId = fabCalls[c2].sessionId
    /\ fabCalls[c1].await = "done" /\ fabCalls[c2].await = "done"
    /\ fabCalls[c1].variantId # NullVariant /\ fabCalls[c2].variantId # NullVariant

\* C33 as stated: two overlapping FormABTestManager.getVariant calls for the
\* same form and the same session without an assignment return the same
\* variant, leave one assignment record, equal to the variant both received,
\* and raise the views of the test's variants by exactly one in total.
C33_Original ==
    \A c1, c2 \in DOMAIN fabCalls :
        ReturnedPair(c1, c2) =>
            /\ fabCalls[c1].variantId = fabCalls[c2].variantId
            /\ fabAssign[<<fabCalls[c1].testId, fabCalls[c1].sessionId>>]
                  = fabCalls[c1].variantId
            /\ TotalViews(fabTests[fabCalls[c1].testId]) = 1

\* C33 as the code behaves: each of the two calls returns a variant of the
\* test, the one assignment record holds the variant that one of them
\* received, and the views of the test went up by one or by two.
C33_RecordOfOneCaller ==
    \A c1, c2 \in DOMAIN fabCalls :
        ReturnedPair(c1, c2) =>
            /\ fabAssign[<<fabCalls[c1].testId, fabCalls[c1].sessionId>>]
                  \in {fabCalls[c1].variantId, fabCalls[c2].variantId}
            /\ TotalViews(fabTests[fabCalls[c1].testId]) \in {1, 2}

\* C8: while the assignment record of a session is in the store, every call
\* of FormABTestManager.getVariant that the form routes to the record's test
\* returns the variant that was returned when the record was written.
C8_AssignmentSticks ==
    \A key \in DOMAIN fabGiven :
        (fabRet.testId = key[1] /\ fabRet.sessionId = key[2])
            => fabRet.variantId = fabGiven[key].variantId

\* a second call, after conversions were recorded and the test was stopped
C8_Witness ==
    \E key \in DOMAIN fabGiven :
        /\ fabGiven[key] = [variantId |-> "B", calls |-> 2]
        /\ fabRet.testId = key[1] /\ fabRet.sessionId = key[2]
        /\ fabRet.variantId = "B"
        /\ fabTests[key[1]].status = "stopped"
        /\ fabTests[key[1]].variants[1].conversions > 0

----------------------------------------------------------------------------
(* CustomerJourneyTracker                                                  *)

\* journey.slice(-100)
JourneyLimit == 100

\* journey.slice(0, n): the oldest n
FirstN(journey, n) == IF Len(journey) <= n THEN journey ELSE SubSeq(journey, 1, n)

\* journey.slice(-n): the most recent n
LastN(journey, n) ==
    IF Len(journey) <= n THEN journey
    ELSE SubSeq(journey, Len(journey) - n + 1, Len(journey))

\* getJourney: await this.kv.get(key, 'json') || []
getJourney(customerId) ==
    IF customerId \in DOMAIN journeys THEN journeys[customerId] ELSE <<>>

JourneyIdle ==
    /\ journeys = <<>>
    /\ jrCalls = 0
    /\ jrAll = [c \in {"c1"} |-> <<>>]

\* trackTouchpoint
trackTouchpoint(customerId, type) ==
    /\ jrCalls < MaxTouch
    /\ jrCalls >= MaxVaried => type = "form_view"
    /\ LET touchpoint == [type |-> type, timestamp |-> jrCalls + 1]
       IN  /\ journeys' = (customerId :>
                  LastN(Append(getJourney(customerId), touchpoint), JourneyLimit))
                  @@ journeys
           /\ jrAll' = [jrAll EXCEPT ![customerId] = Append(@, touchpoint)]
    /\ jrCalls' = jrCalls + 1

JourneyNext ==
    \E c \in {"c1"}, type \in {"form_view", "purchase"} : trackTouchpoint(c, type) /\ JourneyOnly

Smaller(a, b) == IF a <= b THEN a ELSE b

----------------------------------------------------------------------------
(* FormAnalyticsCollector                                                  *)

ColForms == {"f1"}
ColSessionIds == {"s1", "s2"}
\* the visitors of this model: what startSession is told about each
ColVisitors ==
    { [device |-> "mobile", country |-> "US", variant |-> "A"],
      [device |-> "desktop", country |-> NoStr, variant |-> NoStr] }

Interaction(fieldId, type, timestamp, errorMessage) ==
    [fieldId |-> fieldId, type |-> type, timestamp |-> timestamp,
     errorMessage |-> errorMessage]
\* the interactions clients report in this model
ColInteractions ==
    { Interaction("email", "focus", 10, NoStr),
      Interaction("email", "focus", 20, NoStr),
      Interaction("name", "focus", 30, NoStr),
      Interaction("email", "blur", 50, NoStr),
      Interaction("email", "error", 20, "Required"),
      Interaction("email", "error", 20, NoStr) }

MsPerDay == 86400000
\* new Date(t).toISOString().split('T')[0]
DateKey(t) ==
    LET DateKeys ==
          <<"1970-01-01", "1970-01-02", "1970-01-03", "1970-01-04", "1970-01-05",
            "1970-01-06", "1970-01-07", "1970-01-08", "1970-01-09", "1970-01-10">>
    IN  DateKeys[(t \div MsPerDay) + 1]

\* getCounter
getCounter(key) == IF key \in DOMAIN colCounters THEN colCounters[key] ELSE 0

\* incrementCounter, on the counters c
incrementCounter(c, key) ==
    IF key \in DOMAIN c THEN [c EXCEPT ![key] = @ + 1] ELSE (key :> 1) @@ c

RECURSIVE incrementAll(_, _)
incrementAll(c, keys) ==
    IF keys = <<>> THEN c ELSE incrementAll(incrementCounter(c, Head(keys)), Tail(keys))

\* addToAverage, on the averages a
addToAverage(a, key, value) ==
    IF key \in DOMAIN a
    THEN [a EXCEPT ![key] = [sum |-> @.sum + value, count |-> @.count + 1]]
    ELSE (key :> [sum |-> value, count |-> 1]) @@ a

\* getAverage: data && data.count > 0 ? data.sum / data.count : 0
getAverage(key) ==
    IF key \in DOMAIN colAverages /\ colAverages[key].count > 0
    THEN Ratio(colAverages[key].sum, colAverages[key].count)
    ELSE Zero

\* trackError: the table keeps its messages in insertion order
trackError(e, key, message) ==
    LET table == IF key \in DOMAIN e THEN e[key] ELSE <<>>
        updated ==
            IF \E i \in 1..Len(table) : table[i].message = message
            THEN [i \in 1..Len(table) |->
                    IF table[i].message = message
                    THEN [table[i] EXCEPT !.count = @ + 1] ELSE table[i]]
            ELSE Append(table, [message |-> message, count |-> 1])
    IN  (key :> updated) @@ e

\* .sort((a, b) => b.count - a.count), a stable sort
RECURSIVE InsertByCount(_, _)
InsertByCount(sorted, entry) ==
    IF sorted = <<>> THEN <<entry>>
    ELSE IF Head(sorted).count >= entry.count
    THEN <<Head(sorted)>> \o InsertByCount(Tail(sorted), entry)
    ELSE <<entry>> \o sorted
RECURSIVE SortByCount(_)
SortByCount(table) ==
    IF table = <<>> THEN <<>>
    ELSE InsertByCount(SortByCount(SubSeq(table, 1, Len(table) - 1)), table[Len(table)])

\* getTopErrors without the sort: the first five messages of the table
getTopErrorsUnsorted(formId, fieldId) ==
    LET key == <<"errors", formId, fieldId>>
    IN  IF key \notin DOMAIN colErrors THEN <<>> ELSE FirstN(colErrors[key], 5)

\* getTopErrors
getTopErrors(formId, fieldId) ==
    LET key == <<"errors", formId, fieldId>>
    IN  IF key \notin DOMAIN colErrors THEN <<>>
        ELSE FirstN(SortByCount(colErrors[key]), 5)

\* session.interactions.find(...) without the reverse(): the index of the
\* first focus on the field, 0 when there is none
FirstFocus(interactions, fieldId) ==
    LET hits == {i \in 1..Len(interactions) :
                    interactions[i].fieldId = fieldId /\ interactions[i].type = "focus"}
    IN  IF hits = {} THEN 0 ELSE CHOOSE i \in hits : \A j \in hits : i <= j

\* [...session.interactions].reverse().find(i => i.fieldId === f && i.type === 'focus'):
\* the index of the last focus on the field, 0 when there is none
LastFocus(interactions, fieldId) ==
    LET hits == {i \in 1..Len(interactions) :
                    interactions[i].fieldId = fieldId /\ interactions[i].type = "focus"}
    IN  IF hits = {} THEN 0 ELSE CHOOSE i \in hits : \A j \in hits : j <= i

\* the funnel with every drop-off measured from the views
FunnelFromViews(views, starts, completions, submissions) ==
    <<[step |-> "View", count |-> views, dropOff |-> views - starts, rate |-> Ratio(1, 1)],
      [step |-> "Start", count |-> starts, dropOff |-> views - completions,
       rate |-> IF views > 0 THEN Ratio(starts, views) ELSE Zero],
      [step |-> "Complete", count |-> completions, dropOff |-> views - submissions,
       rate |-> IF views > 0 THEN Ratio(completions, views) ELSE Zero],
      [step |-> "Submit", count |-> submissions, dropOff |-> 0,
       rate |-> IF views > 0 THEN Ratio(submissions, views) ELSE Zero]>>

\* the funnel of getAnalytics
Funnel(views, starts, completions, submissions) ==
    <<[step |-> "View", count |-> views, dropOff |-> views - starts, rate |-> Ratio(1, 1)],
      [step |-> "Start", count |-> starts, dropOff |-> starts - completions,
       rate |-> IF views > 0 THEN Ratio(starts, views) ELSE Zero],
      [step |-> "Complete", count |-> completions, dropOff |-> completions - submissions,
       rate |-> IF views > 0 THEN Ratio(completions, views) ELSE Zero],
      [step |-> "Submit", count |-> submissions, dropOff |-> 0,
       rate |-> IF views > 0 THEN Ratio(submissions, views) ELSE Zero]>>

\* one entry of fieldAnalytics
FieldStats(formId, field, views) ==
    LET focuses == getCounter(<<"field", formId, field.id, "focuses">>)
        errors == getCounter(<<"field", formId, field.id, "errors">>)
        dropOffs == getCounter(<<"dropoff", formId, field.id>>)
        avgFieldTime == getAverage(<<"field", formId, field.id, "avgTime">>)
    IN  [fieldId |-> field.id, label |-> field.label, views |-> views,
         focuses |-> focuses,
         completions |-> IF focuses > dropOffs THEN focuses - dropOffs ELSE 0,
         errors |-> errors, dropOffs |-> dropOffs,
         avgTimeSpent |-> Ratio(avgFieldTime.num, avgFieldTime.den * 1000),
         errorRate |-> IF focuses > 0 THEN Ratio(errors, focuses) ELSE Zero,
         completionRate |-> IF focuses > 0 THEN Ratio(focuses - dropOffs, focuses) ELSE Zero,
         mostCommonErrors |-> getTopErrors(formId, field.id)]

\* getDailyStats: one entry per step of 24 hours from start while <= end
RECURSIVE getDailyStats(_, _, _)
getDailyStats(formId, current, end) ==
    IF current > end THEN <<>>
    ELSE LET views == getCounter(<<"views", formId, DateKey(current)>>)
             submissions == getCounter(<<"submissions", formId, DateKey(current)>>)
         IN  <<[date |-> DateKey(current), views |-> views, submissions |-> submissions,
                conversionRate |-> IF views > 0 THEN Ratio(submissions, views) ELSE Zero]>>
             \o getDailyStats(formId, current + MsPerDay, end)

\* getDeviceBreakdown
getDeviceBreakdown(formId) ==
    [device \in {"mobile", "tablet", "desktop"} |->
        LET count == getCounter(<<"device", formId, device>>)
            submissions == getCounter(<<"device", formId, device, "submissions">>)
        IN  [count |-> count,
             conversionRate |-> IF count > 0 THEN Ratio(submissions, count) ELSE Zero]]

NoAnalytics == [formId |-> NoStr]

ColIdle ==
    /\ colSessions = <<>>
    /\ colCounters = <<>>
    /\ colAverages = <<>>
    /\ colErrors = <<>>
    /\ colStored = <<>>
    /\ colNow = 0
    /\ colOps = 0
    /\ colOut = NoAnalytics
    /\ colEnded = [s \in ColSessionIds |-> 0]
    /\ colCalls = <<>>

\* calls are handled one after another
ColReady == colOut = NoAnalytics

\* one call of the collector or one clock tick, within the budget of calls
ColCall(call) ==
    /\ colOps < MaxColOps
    /\ colOps' = colOps + 1
    /\ call

ColTick(delta) ==
    /\ ColReady
    /\ colNow' = colNow + delta
    /\ UNCHANGED <<colSessions, colCounters, colAverages, colErrors, colStored, colOut>>

\* startSession
startSession(formId, sessionId, device, country, variant) ==
    /\ ColReady
    /\ colSessions' = (sessionId :>
           [sessionId |-> sessionId, formId |-> formId, variant |-> variant,
            started |-> colNow, completed |-> NoNum, submitted |-> FALSE,
            interactions |-> <<>>, device |-> device, country |-> country])
           @@ colSessions
    /\ colCounters' = incrementAll(colCounters,
           <<<<"views", formId, DateKey(colNow)>>, <<"views", formId, "total">>,
             <<"device", formId, device>>>>
           \o (IF TruthyStr(country) THEN <<<<"country", formId, country>>>> ELSE <<>>))
    /\ UNCHANGED <<colAverages, colErrors, colStored, colNow, colOut>>

\* trackInteraction
trackInteraction(sessionId, interaction) ==
    /\ ColReady
    /\ IF sessionId \notin DOMAIN colSessions
       THEN UNCHANGED <<colSessions, colCounters, colAverages, colErrors>>
       ELSE LET session == colSessions[sessionId]
                log == Append(session.interactions, interaction)
                fieldKey == <<"field", session.formId, interaction.fieldId>>
                focus == LastFocus(log, interaction.fieldId)
            IN  /\ colSessions' = [colSessions EXCEPT ![sessionId].interactions = log]
                /\ colCounters' =
                      IF interaction.type = "focus"
                      THEN incrementCounter(colCounters, Append(fieldKey, "focuses"))
                      ELSE IF interaction.type = "error"
                      THEN incrementCounter(colCounters, Append(fieldKey, "errors"))
                      ELSE colCounters
                /\ colAverages' =
                      IF interaction.type = "blur" /\ focus # 0
                      THEN addToAverage(colAverages, Append(fieldKey, "avgTime"),
                                        interaction.timestamp - log[focus].timestamp)
                      ELSE colAverages
                /\ colErrors' =
                      IF interaction.type = "error" /\ TruthyStr(interaction.errorMessage)
                      THEN trackError(colErrors,
                                      <<"errors", session.formId, interaction.fieldId>>,
                                      interaction.errorMessage)
                      ELSE colErrors
    /\ UNCHANGED <<colStored, colNow, colOut>>

\* markStarted that leaves the daily counter alone
markStartedTotalOnly(sessionId) ==
    /\ ColReady
    /\ IF sessionId \notin DOMAIN colSessions
       THEN UNCHANGED colCounters
       ELSE colCounters' = incrementCounter(colCounters,
                               <<"starts", colSessions[sessionId].formId, "total">>)
    /\ UNCHANGED <<colSessions, colAverages, colErrors, colStored, colNow, colOut>>

\* markStarted that also drops the session from the map
markStartedEvicting(sessionId) ==
    /\ ColReady
    /\ IF sessionId \notin DOMAIN colSessions
       THEN UNCHANGED <<colSessions, colCounters>>
       ELSE LET formId == colSessions[sessionId].formId
            IN  /\ colCounters' = incrementAll(colCounters,
                       <<<<"starts", formId, DateKey(colNow)>>, <<"starts", formId, "total">>>>)
                /\ colSessions' = Without(colSessions, {sessionId})
    /\ UNCHANGED <<colAverages, colErrors, colStored, colNow, colOut>>

\* markStarted
markStarted(sessionId) ==
    /\ ColReady
    /\ IF sessionId \notin DOMAIN colSessions
       THEN UNCHANGED colCounters
       ELSE LET formId == colSessions[sessionId].formId
            IN  colCounters' = incrementAll(colCounters,
                    <<<<"starts", formId, DateKey(colNow)>>, <<"starts", formId, "total">>>>)
    /\ UNCHANGED <<colSessions, colAverages, colErrors, colStored, colNow, colOut>>

\* markCompleted; the completion time (session.completed - session.started) / 1000
\* is summed in thousandths, which is the elapsed time in ms
markCompleted(sessionId) ==
    /\ ColReady
    /\ IF sessionId \notin DOMAIN colSessions
       THEN UNCHANGED <<colSessions, colCounters, colAverages>>
       ELSE LET session == colSessions[sessionId]
                formId == session.formId
                completionTime == colNow - session.started
            IN  /\ colSessions' = [colSessions EXCEPT ![sessionId].completed = colNow]
                /\ colCounters' = incrementAll(colCounters,
                       <<<<"completions", formId, DateKey(colNow)>>,
                         <<"completions", formId, "total">>>>
                       \o (IF TruthyStr(session.variant)
                           THEN <<<<"variant", formId, session.variant, "completions">>>>
                           ELSE <<>>))
                /\ colAverages' =
                       LET a == addToAverage(colAverages, <<"avgTime", formId>>, completionTime)
                       IN  IF TruthyStr(session.variant)
                           THEN addToAverage(a, <<"variant", formId, session.variant, "avgTime">>,
                                             completionTime)
                           ELSE a
    /\ UNCHANGED <<colErrors, colStored, colNow, colOut>>

\* storeSession left out
storeSessionSkipped(stored, session) == stored

\* storeSession, on the stored records
storeSession(stored, session) ==
    (<<"session", session.formId, session.sessionId>> :> session) @@ stored

\* this.sessions.delete(sessionId) left out
KeepSession(sessions, sessionId) == sessions

\* this.sessions.delete(sessionId) at the end of markSubmitted
EvictSubmitted(sessions, sessionId) == Without(sessions, {sessionId})

\* markSubmitted
markSubmitted(sessionId) ==
    /\ ColReady
    /\ IF sessionId \notin DOMAIN colSessions
       THEN UNCHANGED <<colSessions, colCounters, colStored>>
       ELSE LET session == colSessions[sessionId]
                formId == session.formId
            IN  /\ colCounters' = incrementAll(colCounters,
                       <<<<"submissions", formId, DateKey(colNow)>>,
                         <<"submissions", formId, "total">>>>
                       \o (IF TruthyStr(session.variant)
                           THEN <<<<"variant", formId, session.variant, "submissions">>>>
                           ELSE <<>>))
                /\ colStored' = storeSession(colStored, [session EXCEPT !.submitted = TRUE])
                /\ colSessions' = EvictSubmitted(colSessions, sessionId)
    /\ UNCHANGED <<colAverages, colErrors, colNow, colOut>>

\* trackDropOff persisting the session the way markSubmitted does
trackDropOffPersisted(sessionId, lastFieldId) ==
    /\ ColReady
    /\ IF sessionId \notin DOMAIN colSessions
       THEN UNCHANGED <<colSessions, colCounters, colStored>>
       ELSE LET formId == colSessions[sessionId].formId
            IN  /\ colCounters' = incrementAll(colCounters,
                       <<<<"dropoff", formId, lastFieldId>>,
                         <<"abandoned", formId, DateKey(colNow)>>>>)
                /\ colStored' = storeSession(colStored, colSessions[sessionId])
                /\ colSessions' = Without(colSessions, {sessionId})
    /\ UNCHANGED <<colAverages, colErrors, colNow, colOut>>

\* trackDropOff
trackDropOff(sessionId, lastFieldId) ==
    /\ ColReady
    /\ IF sessionId \notin DOMAIN colSessions
       THEN UNCHANGED <<colSessions, colCounters>>
       ELSE LET formId == colSessions[sessionId].formId
            IN  /\ colCounters' = incrementAll(colCounters,
                       <<<<"dropoff", formId, lastFieldId>>,
                         <<"abandoned", formId, DateKey(colNow)>>>>)
                /\ colSessions' = Without(colSessions, {sessionId})
    /\ UNCHANGED <<colAverages, colErrors, colStored, colNow, colOut>>

\* getAnalytics; byCountry and byReferrer are always empty, and variants is
\* undefined as long as no A/B test is stored for the form
getAnalytics(formId, startDate, endDate) ==
    /\ colOut = NoAnalytics
    /\ LET views == getCounter(<<"views", formId, "total">>)
           starts == getCounter(<<"starts", formId, "total">>)
           completions == getCounter(<<"completions", formId, "total">>)
           submissions == getCounter(<<"submissions", formId, "total">>)
           avgTime == getAverage(<<"avgTime", formId>>)
       IN  colOut' =
             [formId |-> formId,
              period |-> [start |-> startDate, end |-> endDate],
              totals |->
                 [views |-> views, starts |-> starts, completions |-> completions,
                  submissions |-> submissions,
                  conversionRate |-> IF views > 0 THEN Ratio(submissions, views) ELSE Zero,
                  abandonmentRate |->
                      IF starts > 0 THEN Ratio(starts - submissions, starts) ELSE Zero,
                  \* avgTime is kept in thousandths: / 1000 for its unit, / 1000 again
                  avgCompletionTime |-> Ratio(avgTime.num, avgTime.den * 1000 * 1000)],
              funnel |-> Funnel(views, starts, completions, submissions),
              \* the fields of the form, as the caller passes them
              fields |-> LET fields == <<[id |-> "email", label |-> "Email"],
                                         [id |-> "name", label |-> "Name"]>>
                         IN  [i \in 1..Len(fields) |-> FieldStats(formId, fields[i], views)],
              byDay |-> getDailyStats(formId, startDate, endDate),
              byDevice |-> getDeviceBreakdown(formId)]
    /\ UNCHANGED <<colSessions, colCounters, colAverages, colErrors, colStored, colNow, colOps>>

\* getAnalytics returns
ColReturn ==
    /\ colOut # NoAnalytics
    /\ colOut' = NoAnalytics
    /\ UNCHANGED <<colSessions, colCounters, colAverages, colErrors, colStored, colNow, colOps>>

\* the history of a session id: a new session, the end of one, any other call
SessionHistory(s, call) ==
    colEnded' = [colEnded EXCEPT ![s] =
                    IF call = "start" THEN 0
                    ELSE IF @ > 0 THEN 2
                    ELSE IF call = "end" THEN 1 ELSE 0]

ColNext ==
    \/ \E delta \in {4000, MsPerDay} : ColCall(ColTick(delta)) /\ UNCHANGED colEnded /\ ColOnly
    \/ \E f \in ColForms, s \in ColSessionIds, v \in ColVisitors :
          ColCall(startSession(f, s, v.device, v.country, v.variant)) /\ SessionHistory(s, "start") /\ ColOnly
    \/ \E s \in ColSessionIds, i \in ColInteractions :
          ColCall(trackInteraction(s, i)) /\ SessionHistory(s, "call") /\ ColOnly
    \/ \E s \in ColSessionIds : ColCall(markStarted(s)) /\ SessionHistory(s, "call") /\ ColOnly
    \/ \E s \in ColSessionIds : ColCall(markCompleted(s)) /\ SessionHistory(s, "call") /\ ColOnly
    \/ \E s \in ColSessionIds : ColCall(markSubmitted(s)) /\ SessionHistory(s, "end") /\ ColOnly
    \/ \E s \in ColSessionIds, f \in {"email", "name"} :
          ColCall(trackDropOff(s, f)) /\ SessionHistory(s, "end") /\ ColOnly
    \/ \E f \in ColForms, period \in {<<0, 0>>, <<4000, MsPerDay>>} :
          getAnalytics(f, period[1], period[2]) /\ UNCHANGED colEnded /\ ColOnly
    \/ ColReturn /\ UNCHANGED colEnded /\ ColOnly

\* one call of the collector within the budget of the field reports
ColFieldCall(call) ==
    /\ colOps < MaxFieldOps
    /\ colOps' = colOps + 1
    /\ call

\* the calls behind the per-field report of one form: one visitor who
\* starts sessions, focuses the email field, meets errors on it and drops
\* off at it. Error messages are named in the order of their first
\* appearance (m1 is the first message ever reported, m2 the second, ...).
ColFieldsNext ==
    LET key == <<"errors", "f1", "email">>
        known == IF key \in DOMAIN colErrors THEN Len(colErrors[key]) ELSE 0
        messages == <<"m1", "m2", "m3", "m4", "m5", "m6">>
    IN  \/ ColFieldCall(startSession("f1", "s1", "desktop", NoStr, NoStr))
              /\ SessionHistory("s1", "start") /\ ColOnly
        \/ ColFieldCall(trackInteraction("s1", Interaction("email", "focus", 10, NoStr)))
              /\ SessionHistory("s1", "call") /\ ColOnly
        \/ \E k \in 1..Len(messages) :
              /\ k <= known + 1
              /\ ColFieldCall(trackInteraction("s1",
                                  Interaction("email", "error", 20, messages[k])))
              /\ SessionHistory("s1", "call") /\ ColOnly
        \/ ColFieldCall(trackDropOff("s1", "email")) /\ SessionHistory("s1", "end") /\ ColOnly
        \/ getAnalytics("f1", 0, 0) /\ UNCHANGED colEnded /\ ColOnly
        \/ ColReturn /\ UNCHANGED colEnded /\ ColOnly

\* C9: in every funnel returned by getAnalytics each step's dropOff is its
\* count minus the count of the next step.
C9_FunnelDropOff ==
    colOut # NoAnalytics =>
        \A i \in 1..3 :
            colOut.funnel[i].dropOff = colOut.funnel[i].count - colOut.funnel[i + 1].count

\* a funnel whose counts are all different and not decreasing-only
C9_Witness ==
    /\ colOut # NoAnalytics
    /\ colOut.funnel[1].count = 1
    /\ colOut.funnel[2].count = 2
    /\ colOut.funnel[3].count = 1
    /\ colOut.funnel[4].count = 0
    /\ colOut.funnel[1].dropOff = -1
    /\ colOut.funnel[2].dropOff = 1
    /\ colOut.funnel[3].dropOff = 1

\* the running average stored under a key: no samples when the key is absent
AverageAt(averages, key) ==
    IF key \in DOMAIN averages THEN averages[key] ELSE [sum |-> 0, count |-> 0]

\* the step appends one interaction to the log of the live session s
Interacts(s) ==
    /\ s \in DOMAIN colSessions
    /\ s \in DOMAIN colSessions'
    /\ Len(colSessions'[s].interactions) = Len(colSessions[s].interactions) + 1
    /\ SubSeq(colSessions'[s].interactions, 1, Len(colSessions[s].interactions))
           = colSessions[s].interactions

\* C11: a focus adds no sample to any running average; a blur on a field that
\* was focused before adds exactly one sample to that field's time-spent
\* average, equal to the blur's timestamp minus the timestamp of the latest
\* focus on the field in the session's log (focus, focus, blur: one sample,
\* measured from the second focus).
C11_BlurAddsOneSample ==
    [][\A s \in ColSessionIds :
          Interacts(s) =>
            LET log == colSessions[s].interactions
                last == colSessions'[s].interactions[Len(log) + 1]
                key == <<"field", colSessions[s].formId, last.fieldId, "avgTime">>
                focuses == {i \in 1..Len(log) :
                               log[i].type = "focus" /\ log[i].fieldId = last.fieldId}
            IN  /\ last.type = "focus" => colAverages' = colAverages
                /\ (last.type = "blur" /\ focuses # {}) =>
                      \E i \in focuses :
                         /\ \A j \in focuses : j <= i
                         /\ AverageAt(colAverages', key).count
                               = AverageAt(colAverages, key).count + 1
                         /\ AverageAt(colAverages', key).sum
                               = AverageAt(colAverages, key).sum
                                 + last.timestamp - log[i].timestamp
                         /\ \A k \in DOMAIN colAverages' \ {key} :
                               k \in DOMAIN colAverages /\ colAverages'[k] = colAverages[k]]_vars

\* focus at 10, focus at 20, blur at 50: one sample of 30
C11_Witness ==
    /\ "s1" \in DOMAIN colSessions
    /\ colSessions["s1"].interactions =
          <<Interaction("email", "focus", 10, NoStr),
            Interaction("email", "focus", 20, NoStr),
            Interaction("email", "blur", 50, NoStr)>>
    /\ AverageAt(colAverages, <<"field", "f1", "email", "avgTime">>) = [sum |-> 30, count |-> 1]

\* the step is a call other than startSession for the session id s
CallFor(s) ==
    \/ markStarted(s)
    \/ markCompleted(s)
    \/ markSubmitted(s)
    \/ \E i \in ColInteractions : trackInteraction(s, i)
    \/ \E f \in {"email", "name"} : trackDropOff(s, f)

CounterAt(counters, key) == IF key \in DOMAIN counters THEN counters[key] ELSE 0

\* C13: after markSubmitted for a live session the store holds the session's
\* record, as it was in memory but with submitted = true, under
\* analytics:session:{formId}:{sessionId}; the daily and the total
\* submissions counter of its form have each grown by one; and the session
\* is no longer in the in-memory map.
C13_SubmittedSessionStored ==
    [][\A s \in ColSessionIds :
          (s \in DOMAIN colSessions /\ markSubmitted(s)) =>
            LET session == colSessions[s]
                f == session.formId
                key == <<"session", f, s>>
                daily == <<"submissions", f, DateKey(colNow)>>
                total == <<"submissions", f, "total">>
            IN  /\ key \in DOMAIN colStored'
                /\ colStored'[key] = [session EXCEPT !.submitted = TRUE]
                /\ CounterAt(colCounters', daily) = CounterAt(colCounters, daily) + 1
                /\ CounterAt(colCounters', total) = CounterAt(colCounters, total) + 1
                /\ s \notin DOMAIN colSessions']_vars

\* a session with an interaction in its log, submitted on the second day
C13_Witness ==
    /\ <<"session", "f1", "s1">> \in DOMAIN colStored
    /\ colStored[<<"session", "f1", "s1">>].submitted
    /\ Len(colStored[<<"session", "f1", "s1">>].interactions) = 1
    /\ CounterAt(colCounters, <<"submissions", "f1", "1970-01-02">>) = 1
    /\ CounterAt(colCounters, <<"submissions", "f1", "total">>) = 1
    /\ "s1" \notin DOMAIN colSessions

\* C14: trackDropOff on a live session adds one to the drop-off counter of
\* lastFieldId and one to the day's abandoned counter, leaves every other
\* counter (views, starts, completions, submissions among them) as it was,
\* removes the session from the in-memory map and writes nothing to the
\* stored session records.
C14_DropOffEffect ==
    [][\A s \in ColSessionIds, field \in {"email", "name"} :
          (s \in DOMAIN colSessions /\ trackDropOff(s, field)) =>
            LET f == colSessions[s].formId
                dropoff == <<"dropoff", f, field>>
                abandoned == <<"abandoned", f, DateKey(colNow)>>
            IN  /\ CounterAt(colCounters', dropoff) = CounterAt(colCounters, dropoff) + 1
                /\ CounterAt(colCounters', abandoned) = CounterAt(colCounters, abandoned) + 1
                /\ \A k \in (DOMAIN colCounters \cup DOMAIN colCounters') \ {dropoff, abandoned} :
                      CounterAt(colCounters', k) = CounterAt(colCounters, k)
                /\ \A kind \in {"views", "starts", "completions", "submissions"} :
                      CounterAt(colCounters', <<kind, f, "total">>)
                         = CounterAt(colCounters, <<kind, f, "total">>)
                /\ s \notin DOMAIN colSessions'
                /\ colStored' = colStored
                /\ colAverages' = colAverages]_vars

\* a started session dropped at the field "name"
C14_Witness ==
    /\ CounterAt(colCounters, <<"dropoff", "f1", "name">>) = 1
    /\ CounterAt(colCounters, <<"abandoned", "f1", "1970-01-01">>) = 1
    /\ CounterAt(colCounters, <<"views", "f1", "total">>) = 1
    /\ CounterAt(colCounters, <<"starts", "f1", "total">>) = 1
    /\ colSessions = <<>>
    /\ colStored = <<>>

\* this step is a call that ends the session s: markSubmitted or trackDropOff
EndsSession(s) == markSubmitted(s) \/ \E f \in {"email", "name"} : trackDropOff(s, f)

\* this step is a startSession for the session id s
StartsSession(s) ==
    \E f \in ColForms, v \in ColVisitors : startSession(f, s, v.device, v.country, v.variant)

\* C24: a session leaves the in-memory map only in markSubmitted and
\* trackDropOff, which always remove it, and enters it only in startSession,
\* which always adds it; trackInteraction, markStarted, markCompleted and
\* getAnalytics keep every session in the map, so the map holds exactly the
\* started session ids that were not submitted or dropped since.
C24_SessionsLeaveOnlyAtEnd ==
    [][\A s \in ColSessionIds :
          /\ (s \in DOMAIN colSessions /\ s \notin DOMAIN colSessions') => EndsSession(s)
          /\ (s \in DOMAIN colSessions /\ EndsSession(s)) => s \notin DOMAIN colSessions'
          /\ (s \notin DOMAIN colSessions /\ s \in DOMAIN colSessions') => StartsSession(s)
          /\ StartsSession(s) => s \in DOMAIN colSessions']_vars

\* two sessions are in the map, one of them with an interaction and completed
C24_Witness ==
    /\ DOMAIN colSessions = ColSessionIds
    /\ \E s \in ColSessionIds :
          /\ colSessions[s].completed # NoNum
          /\ Len(colSessions[s].interactions) = 1


\* the date keys of the byDay series being returned
ByDayDates == [i \in 1..Len(colOut.byDay) |-> colOut.byDay[i].date]

\* C23 as stated: for startDate <= endDate the byDay series of getAnalytics
\* has exactly one entry for each calendar day from the day of startDate to
\* the day of endDate inclusive, in ascending order, whatever the times of
\* day of the two timestamps; for startDate > endDate it is empty.
C23_Original ==
    colOut # NoAnalytics =>
        LET start == colOut.period.start
            end == colOut.period.end
            days == IF start <= end THEN (end \div MsPerDay) - (start \div MsPerDay) + 1 ELSE 0
        IN  ByDayDates = [i \in 1..days |-> DateKey(((start \div MsPerDay) + i - 1) * MsPerDay)]

\* C23 with the days counted as the loop counts them: one entry for the day
\* of startDate and one for each later day reached in steps of 24 hours
\* without passing endDate, so the day of endDate is left out when endDate
\* is earlier in its day than startDate is in its own; empty for
\* startDate > endDate.
C23_DailySteps ==
    colOut # NoAnalytics =>
        LET start == colOut.period.start
            end == colOut.period.end
            days == IF start <= end THEN ((end - start) \div MsPerDay) + 1 ELSE 0
        IN  ByDayDates = [i \in 1..days |-> DateKey(start + (i - 1) * MsPerDay)]

\* two exact quotients are the same number
SameRatio(a, b) == a.num * b.den = b.num * a.den

\* C26 as stated: for every field reported by getAnalytics, completions is
\* max(0, focuses - dropOffs) and completionRate is completions / focuses
\* when focuses > 0 and 0 otherwise, so it is never negative.
C26_Original ==
    colOut # NoAnalytics =>
        \A i \in 1..Len(colOut.fields) :
            LET f == colOut.fields[i]
            IN  /\ f.completions = IF f.focuses > f.dropOffs THEN f.focuses - f.dropOffs ELSE 0
                /\ SameRatio(f.completionRate,
                             IF f.focuses > 0 THEN Ratio(f.completions, f.focuses) ELSE Zero)
                /\ f.completionRate.num * f.completionRate.den >= 0

\* C26 with the rate as the code computes it: completions is floored at 0,
\* completionRate is (focuses - dropOffs) / focuses when focuses > 0 and 0
\* otherwise, without the floor.
C26_RateNotFloored ==
    colOut # NoAnalytics =>
        \A i \in 1..Len(colOut.fields) :
            LET f == colOut.fields[i]
            IN  /\ f.completions = IF f.focuses > f.dropOffs THEN f.focuses - f.dropOffs ELSE 0
                /\ SameRatio(f.completionRate,
                             IF f.focuses > 0 THEN Ratio(f.focuses - f.dropOffs, f.focuses)
                             ELSE Zero)

\* the error table of a field in the tables e, and the count it holds for a message
ErrorTable(e, formId, fieldId) ==
    IF <<"errors", formId, fieldId>> \in DOMAIN e THEN e[<<"errors", formId, fieldId>>] ELSE <<>>
ErrorCount(e, formId, fieldId, message) ==
    LET table == ErrorTable(e, formId, fieldId)
        hits == {i \in 1..Len(table) : table[i].message = message}
    IN  IF hits = {} THEN 0 ELSE table[CHOOSE i \in hits : TRUE].count

\* the report being returned lists, for each field, at most 5 messages of
\* the field's error table with their counts, in non-increasing order of
\* count, and no message it leaves out has a greater count than one it lists
TopErrorsOfTable ==
    colOut # NoAnalytics =>
        \A n \in 1..Len(colOut.fields) :
            LET top == colOut.fields[n].mostCommonErrors
                table == ErrorTable(colErrors, colOut.formId, colOut.fields[n].fieldId)
                listed == {top[i].message : i \in 1..Len(top)}
            IN  /\ Len(top) = IF Len(table) < 5 THEN Len(table) ELSE 5
                /\ Cardinality(listed) = Len(top)
                /\ \A i \in 1..Len(top) :
                      /\ \E j \in 1..Len(table) : table[j] = top[i]
                      /\ i < Len(top) => top[i].count >= top[i + 1].count
                /\ \A j \in 1..Len(table) :
                      table[j].message \notin listed
                          => \A i \in 1..Len(top) : table[j].count <= top[i].count

\* an error interaction with a message, tracked for a live session s, adds
\* one to the count of its message in the table of its field and changes no
\* other count; no other step changes an error table
ErrorsCounted ==
    IF \E s \in ColSessionIds :
          Interacts(s) /\ colSessions'[s].interactions[Len(colSessions'[s].interactions)].type = "error"
     THEN \E s \in ColSessionIds :
            /\ Interacts(s)
            /\ LET i == colSessions'[s].interactions[Len(colSessions'[s].interactions)]
                   f == colSessions[s].formId
               IN  IF TruthyStr(i.errorMessage)
                   THEN /\ ErrorCount(colErrors', f, i.fieldId, i.errorMessage)
                              = ErrorCount(colErrors, f, i.fieldId, i.errorMessage) + 1
                        /\ \A key \in DOMAIN colErrors' :
                              \A j \in 1..Len(colErrors'[key]) :
                                 LET entry == colErrors'[key][j]
                                 IN  (key # <<"errors", f, i.fieldId>>
                                        \/ entry.message # i.errorMessage)
                                     => /\ key \in DOMAIN colErrors
                                        /\ \E k \in 1..Len(colErrors[key]) :
                                              colErrors[key][k] = entry
                        /\ \A key \in DOMAIN colErrors :
                              key \in DOMAIN colErrors'
                                 /\ Len(colErrors'[key]) >= Len(colErrors[key])
                   ELSE colErrors' = colErrors
     ELSE colErrors' = colErrors

\* C27: mostCommonErrors of every field in getAnalytics has at most 5
\* entries in non-increasing order of count, each count is the number of
\* error interactions tracked with that message for the field, and every
\* message left out has a count no greater than every message listed.
C27_TopFiveErrors == []TopErrorsOfTable /\ [][ErrorsCounted]_vars

\* six messages were tracked, the last one twice: the report lists it first
\* and leaves the sixth of the others out
C27_Witness ==
    /\ colOut # NoAnalytics
    /\ Len(ErrorTable(colErrors, "f1", "email")) = 6
    /\ LET top == colOut.fields[1].mostCommonErrors
       IN  /\ Len(top) = 5
           /\ top[1] = [message |-> "m6", count |-> 2]
           /\ top[5] = [message |-> "m4", count |-> 1]

----------------------------------------------------------------------------
(* FormAnalyticsCollector: startSession calls that overlap                 *)

\* startSession up to its first await: the session is put into the map and
\* the call c is left with its counters to increment, one after another
startSessionBegins(c, formId, sessionId, device, country, variant) ==
    /\ c \notin DOMAIN colCalls
    /\ colSessions' = (sessionId :>
           [sessionId |-> sessionId, formId |-> formId, variant |-> variant,
            started |-> colNow, completed |-> NoNum, submitted |-> FALSE,
            interactions |-> <<>>, device |-> device, country |-> country])
           @@ colSessions
    /\ LET inFlight == {d \in DOMAIN colCalls : colCalls[d].await # "done"}
       IN  colCalls' =
              (c :> [formId |-> formId,
                     keys |-> <<<<"views", formId, DateKey(colNow)>>,
                                <<"views", formId, "total">>, <<"device", formId, device>>>>
                              \o (IF TruthyStr(country) THEN <<<<"country", formId, country>>>>
                                  ELSE <<>>),
                     incremented |-> 0, await |-> "get", current |-> NoNum,
                     overlapped |-> inFlight # {}, then |-> "done"])
              @@ [d \in DOMAIN colCalls |->
                     IF d \in inFlight THEN [colCalls[d] EXCEPT !.overlapped = TRUE]
                     ELSE colCalls[d]]
    /\ UNCHANGED colCounters

\* incrementCounter of call c with a kv.get that always resolves with null
incrementCounterReadsNull(c) ==
    /\ c \in DOMAIN colCalls
    /\ colCalls[c].await = "get"
    /\ colCalls' = [colCalls EXCEPT ![c].current = NoNum, ![c].await = "put"]
    /\ UNCHANGED <<colSessions, colCounters>>

\* incrementCounter of call c: kv.get resolves with the stored text or null
incrementCounterReads(c) ==
    /\ c \in DOMAIN colCalls
    /\ colCalls[c].await = "get"
    /\ LET key == colCalls[c].keys[colCalls[c].incremented + 1]
       IN  colCalls' = [colCalls EXCEPT
                           ![c].current = IF key \in DOMAIN colCounters THEN colCounters[key]
                                          ELSE NoNum,
                           ![c].await = "put"]
    /\ UNCHANGED <<colSessions, colCounters>>

\* incrementCounter of call c: kv.put of current ? parseInt(current) + 1 : 1;
\* the call then goes on to its next counter or to what follows its counters
incrementCounterWrites(c) ==
    /\ c \in DOMAIN colCalls
    /\ colCalls[c].await = "put"
    /\ LET call == colCalls[c]
           key == call.keys[call.incremented + 1]
           count == IF call.current = NoNum THEN 1 ELSE call.current + 1
       IN  /\ colCounters' = (key :> count) @@ colCounters
           /\ colCalls' = [colCalls EXCEPT
                              ![c].incremented = @ + 1,
                              ![c].await = IF call.incremented + 1 = Len(call.keys)
                                           THEN call.then ELSE "get"]
    /\ UNCHANGED colSessions

\* up to MaxCalls calls of startSession, each taking its steps at its own pace
OverlapNext ==
    \/ \E c \in 1..MaxCalls, f \in ColForms, s \in ColSessionIds, v \in ColVisitors :
          /\ startSessionBegins(c, f, s, v.device, v.country, v.variant)
          /\ SessionHistory(s, "start")
          /\ OverlapOnly
    \/ \E c \in 1..MaxCalls : incrementCounterReads(c) /\ UNCHANGED colEnded /\ OverlapOnly
    \/ \E c \in 1..MaxCalls : incrementCounterWrites(c) /\ UNCHANGED colEnded /\ OverlapOnly

----------------------------------------------------------------------------
(* ConversionTracker                                                       *)

CtIdle ==
    /\ ctEvents = <<>>
    /\ ctAggregates = <<>>
    /\ ctRevenue = <<>>
    /\ ctNow = 2 * MsPerDay
    /\ ctOps = 0
    /\ ctRet = [op |-> "none"]
    /\ ctTracked = <<>>

\* updateAggregates counting a field_complete event as a start
updateAggregatesAnyType(event) ==
    LET key == <<event.formId, DateKey(ctNow)>>
        data == IF key \in DOMAIN ctAggregates THEN ctAggregates[key]
                ELSE [views |-> 0, starts |-> 0, submits |-> 0, successes |-> 0, errors |-> 0]
    IN  (key :> (IF event.eventType = "view" THEN [data EXCEPT !.views = @ + 1]
                 ELSE [data EXCEPT !.starts = @ + 1])) @@ ctAggregates

\* updateAggregates: the aggregates after the event was counted; today is
\* the date of the call, whatever the timestamp of the event
updateAggregates(event) ==
    LET key == <<event.formId, DateKey(ctNow)>>
        data == IF key \in DOMAIN ctAggregates THEN ctAggregates[key]
                ELSE [views |-> 0, starts |-> 0, submits |-> 0, successes |-> 0, errors |-> 0]
        counted ==
            CASE event.eventType = "view" -> [data EXCEPT !.views = @ + 1]
              [] event.eventType = "start" -> [data EXCEPT !.starts = @ + 1]
              [] event.eventType = "submit" -> [data EXCEPT !.submits = @ + 1]
              [] event.eventType = "success" -> [data EXCEPT !.successes = @ + 1]
              [] event.eventType = "error" -> [data EXCEPT !.errors = @ + 1]
              [] OTHER -> data
    IN  (key :> counted) @@ ctAggregates

\* trackEvent (the optional Analytics Engine dataset is write-only and left out)
trackEvent(event) ==
    /\ ctEvents' = (<<event.formId, event.sessionId, event.eventType, event.timestamp>>
                       :> event) @@ ctEvents
    /\ ctAggregates' = updateAggregates(event)
    /\ ctTracked' =
          LET key == <<event.formId, event.eventType, DateKey(ctNow)>>
          IN  (key :> (IF key \in DOMAIN ctTracked THEN ctTracked[key] ELSE 0) + 1)
                  @@ ctTracked
    /\ ctRet' = [op |-> "trackEvent", event |-> event]
    /\ UNCHANGED ctNow

\* trackSuccess, with trackRevenue for a revenue that is truthy
trackSuccess(formId, sessionId, revenue) ==
    /\ trackEvent([formId |-> formId, sessionId |-> sessionId, eventType |-> "success",
                   timestamp |-> ctNow])
    /\ ctRevenue' =
          IF ~TruthyNum(revenue) THEN ctRevenue
          ELSE LET key == <<formId, DateKey(ctNow)>>
                   current == IF key \in DOMAIN ctRevenue THEN ctRevenue[key]
                              ELSE [total |-> 0, count |-> 0]
               IN  (key :> [total |-> current.total + revenue, count |-> current.count + 1])
                       @@ ctRevenue

\* getPerformance reporting the submit events as submissions and reading
\* one day more than asked for
getPerformanceSubmits(formId, days) ==
    LET Sum[i \in 0..(days + 1)] ==
            IF i = 0 THEN [views |-> 0, submits |-> 0]
            ELSE LET key == <<formId, DateKey(ctNow - (i - 1) * MsPerDay)>>
                 IN  IF key \in DOMAIN ctAggregates
                     THEN [views |-> Sum[i - 1].views + ctAggregates[key].views,
                           submits |-> Sum[i - 1].submits + ctAggregates[key].submits]
                     ELSE Sum[i - 1]
    IN  [formId |-> formId, views |-> Sum[days + 1].views, starts |-> 0,
         submissions |-> Sum[days + 1].submits, successRate |-> Zero,
         avgCompletionTime |-> 0, revenueGenerated |-> 0, topDropOffFields |-> <<>>]

\* getPerformance: the loop over i = 0 .. days - 1 adds the aggregate and the
\* revenue of the date i days before now (the runtime's time zone is UTC)
getPerformance(formId, days) ==
    LET After[i \in 0..days] ==
            IF i = 0
            THEN [views |-> 0, starts |-> 0, submissions |-> 0, successes |-> 0, revenue |-> 0]
            ELSE LET key == <<formId, DateKey(ctNow - (i - 1) * MsPerDay)>>
                     agg == IF key \in DOMAIN ctAggregates THEN ctAggregates[key]
                            ELSE [views |-> 0, starts |-> 0, submits |-> 0, successes |-> 0]
                     rev == IF key \in DOMAIN ctRevenue THEN ctRevenue[key].total ELSE 0
                 IN  [views |-> After[i - 1].views + agg.views,
                      starts |-> After[i - 1].starts + agg.starts,
                      submissions |-> After[i - 1].submissions + agg.submits,
                      successes |-> After[i - 1].successes + agg.successes,
                      revenue |-> After[i - 1].revenue + rev]
        sums == After[days]
    IN  [formId |-> formId,
         views |-> sums.views,
         starts |-> sums.starts,
         submissions |-> sums.successes,
         successRate |-> IF sums.submissions > 0
                         THEN Ratio(100 * sums.successes, sums.submissions) ELSE Zero,
         avgCompletionTime |-> 0,
         revenueGenerated |-> sums.revenue,
         topDropOffFields |-> <<>>]

\* getFunnel with the Submit step measured against the views
getFunnelFromViews(formId, days) ==
    LET perf == getPerformance(formId, days)
        Step(name, count) ==
            [name |-> name, count |-> count,
             conversionRate |-> IF perf.views > 0 THEN Ratio(100 * count, perf.views) ELSE Zero,
             dropOffRate |-> IF perf.views > 0
                             THEN Ratio(100 * (perf.views - count), perf.views) ELSE Zero,
             avgTimeToNext |-> 0]
    IN  [formId |-> formId,
         steps |-> <<[name |-> "View", count |-> perf.views, conversionRate |-> Ratio(100, 1),
                      dropOffRate |-> Zero, avgTimeToNext |-> 0],
                     Step("Start", perf.starts), Step("Submit", perf.submissions)>>,
         period |-> [start |-> ctNow - days * MsPerDay, end |-> ctNow]]

\* getFunnel: the steps View, Start and Submit of getPerformance, each with
\* its rates relative to the step before it
getFunnel(formId, days) ==
    LET perf == getPerformance(formId, days)
    IN  [formId |-> formId,
         steps |->
            <<[name |-> "View", count |-> perf.views, conversionRate |-> Ratio(100, 1),
               dropOffRate |-> Zero, avgTimeToNext |-> 0],
              [name |-> "Start", count |-> perf.starts,
               conversionRate |-> IF perf.views > 0
                                  THEN Ratio(100 * perf.starts, perf.views) ELSE Zero,
               dropOffRate |-> IF perf.views > 0
                               THEN Ratio(100 * (perf.views - perf.starts), perf.views)
                               ELSE Zero,
               avgTimeToNext |-> 0],
              [name |-> "Submit", count |-> perf.submissions,
               conversionRate |-> IF perf.starts > 0
                                  THEN Ratio(100 * perf.submissions, perf.starts) ELSE Zero,
               dropOffRate |-> IF perf.starts > 0
                               THEN Ratio(100 * (perf.starts - perf.submissions), perf.starts)
                               ELSE Zero,
               avgTimeToNext |-> 0]>>,
         period |-> [start |-> ctNow - days * MsPerDay, end |-> ctNow]]

\* one call of the tracker or one day passing, within the budget
CtCall(call) ==
    /\ ctOps < MaxCtOps
    /\ ctOps' = ctOps + 1
    /\ call

\* an event carries the time of the call (as trackView .. trackSubmit build
\* it); a view passed to trackEvent may carry an earlier time; the second
\* form is viewed and submitted only
CtNext ==
    \/ \E f \in {"f1", "f2"},
          type \in {"view", "start", "field_complete", "submit", "success", "error"},
          t \in {ctNow, 0} :
          /\ t = 0 => f = "f1" /\ type = "view"
          /\ f = "f2" => type \in {"view", "submit"}
          /\ CtCall(trackEvent([formId |-> f, sessionId |-> "s1", eventType |-> type,
                                timestamp |-> t])
                    /\ UNCHANGED ctRevenue)
          /\ CtOnly
    \/ \E revenue \in {NoNum, 5} : CtCall(trackSuccess("f1", "s1", revenue)) /\ CtOnly
    \/ \E days \in 1..2 :
          CtCall(/\ ctRet' = [op |-> "getPerformance", days |-> days,
                              performance |-> getPerformance("f1", days)]
                 /\ UNCHANGED <<ctStore, ctNow, ctTracked>>) /\ CtOnly
    \/ \E days \in 1..2 :
          CtCall(/\ ctRet' = [op |-> "getFunnel", days |-> days,
                              funnel |-> getFunnel("f1", days)]
                 /\ UNCHANGED <<ctStore, ctNow, ctTracked>>) /\ CtOnly
    \/ CtCall(/\ ctNow' = ctNow + MsPerDay
              /\ ctRet' = [op |-> "tick"]
              /\ UNCHANGED <<ctStore, ctTracked>>) /\ CtOnly

\* the five counters of a daily aggregate, zero while the record is absent
AggregateOf(aggregates, key) ==
    IF key \in DOMAIN aggregates THEN aggregates[key]
    ELSE [views |-> 0, starts |-> 0, submits |-> 0, successes |-> 0, errors |-> 0]

\* the counter that an event type stands for, if any
CounterOfType(type) ==
    CASE type = "view" -> "views"
      [] type = "start" -> "starts"
      [] type = "submit" -> "submits"
      [] type = "success" -> "successes"
      [] type = "error" -> "errors"
      [] OTHER -> "none"

\* C25: ConversionTracker.trackEvent stores one raw event record and, in the
\* aggregate of the event's form for the day of the call, adds one to exactly
\* the counter of the event type (view -> views, start -> starts, submit ->
\* submits, success -> successes, error -> errors) and leaves the other four
\* as they were; a field_complete event leaves all five as they were; the
\* aggregates of other forms and of other days are not touched.
C25_OneCounterPerEvent ==
    [][ctRet'.op = "trackEvent" =>
          LET event == ctRet'.event
              raw == <<event.formId, event.sessionId, event.eventType, event.timestamp>>
              key == <<event.formId, DateKey(ctNow)>>
          IN  /\ DOMAIN ctEvents' = DOMAIN ctEvents \cup {raw}
              /\ ctEvents'[raw] = event
              /\ \A k \in DOMAIN ctEvents \ {raw} : ctEvents'[k] = ctEvents[k]
              /\ \A c \in {"views", "starts", "submits", "successes", "errors"} :
                    AggregateOf(ctAggregates', key)[c] =
                        AggregateOf(ctAggregates, key)[c]
                            + (IF c = CounterOfType(event.eventType) THEN 1 ELSE 0)
              /\ DOMAIN ctAggregates' = DOMAIN ctAggregates \cup {key}
              /\ \A k \in DOMAIN ctAggregates \ {key} : ctAggregates'[k] = ctAggregates[k]
    ]_vars

\* a field_complete event was tracked on a later day than a view of the same
\* form, after a submit of the other form: the aggregate of that day holds
\* zeros and the two older aggregates are as they were
C25_Witness ==
    /\ ctRet.op = "trackEvent"
    /\ ctRet.event.eventType = "field_complete"
    /\ ctRet.event.formId = "f1"
    /\ ctNow = 3 * MsPerDay
    /\ AggregateOf(ctAggregates, <<"f1", DateKey(2 * MsPerDay)>>).views = 1
    /\ AggregateOf(ctAggregates, <<"f2", DateKey(2 * MsPerDay)>>).submits = 1
    /\ <<"f1", DateKey(ctNow)>> \in DOMAIN ctAggregates
    /\ \A c \in {"views", "starts", "submits", "successes", "errors"} :
          ctAggregates[<<"f1", DateKey(ctNow)>>][c] = 0

\* the trackEvent calls for a form with an event type that were made on
\* today or on one of the days - 1 days before it
TrackedInWindow(formId, type, days) ==
    LET Upto[i \in 0..days] ==
            IF i = 0 THEN 0
            ELSE LET key == <<formId, type, DateKey(ctNow - (i - 1) * MsPerDay)>>
                 IN  Upto[i - 1] + (IF key \in DOMAIN ctTracked THEN ctTracked[key] ELSE 0)
    IN  Upto[days]

\* C30: ConversionTracker.getPerformance(formId, days) reports as views and
\* starts the view and start events of the form counted on today and the
\* days - 1 days before it (older days and other forms add nothing), reports
\* as submissions the success events of that window, not its submit events,
\* and reports successRate 0 when the window has no submit event.
C30_WindowSums ==
    ctRet.op = "getPerformance" =>
        LET p == ctRet.performance
            days == ctRet.days
        IN  /\ p.views = TrackedInWindow(p.formId, "view", days)
            /\ p.starts = TrackedInWindow(p.formId, "start", days)
            /\ p.submissions = TrackedInWindow(p.formId, "success", days)
            /\ TrackedInWindow(p.formId, "submit", days) = 0 => p.successRate = Zero

\* a view of the form on the day before, a submit of the other form and a
\* success of the form today, then getPerformance for one day: no view, one
\* submission, rate 0
C30_Witness ==
    /\ ctRet.op = "getPerformance"
    /\ ctRet.days = 1
    /\ ctRet.performance.formId = "f1"
    /\ <<"f1", "view", DateKey(ctNow - MsPerDay)>> \in DOMAIN ctTracked
    /\ <<"f2", "submit", DateKey(ctNow)>> \in DOMAIN ctTracked
    /\ ctRet.performance.views = 0
    /\ ctRet.performance.submissions = 1
    /\ ctRet.performance.successRate = Zero

\* the increments of a counter that the startSession calls have finished
FinishedIncrements(key) ==
    Cardinality({ci \in (DOMAIN colCalls) \X (1..4) :
                    /\ ci[2] <= colCalls[ci[1]].incremented
                    /\ colCalls[ci[1]].keys[ci[2]] = key})

\* C22: whatever the interleaving of startSession calls, a counter such as
\* views:{formId}:total never exceeds the number of increments finished on
\* it, and it equals that number when no call began while another was in
\* flight. (That it can fall short when calls overlap is C22_Witness.)
C22_NoMoreThanIncrements ==
    \A f \in ColForms :
        \A key \in DOMAIN colCounters \cup {<<"views", f, "total">>} :
            /\ getCounter(key) <= FinishedIncrements(key)
            /\ (\A c \in DOMAIN colCalls : ~colCalls[c].overlapped)
                  => getCounter(key) = FinishedIncrements(key)

\* two overlapping startSession calls for the form f1 have returned, both
\* read views:f1:total before either wrote it, and the counter is at 1
C22_Witness ==
    /\ DOMAIN colCalls = {1, 2}
    /\ \A c \in {1, 2} :
          /\ colCalls[c].formId = "f1"
          /\ colCalls[c].await = "done"
          /\ colCalls[c].overlapped
    /\ FinishedIncrements(<<"views", "f1", "total">>) = 2
    /\ getCounter(<<"views", "f1", "total">>) = 1

\* conversionRate and dropOffRate of a step are the share of the count in
\* the count of the step before and the rest of 100, or both 0 when the step
\* before counted nothing
RatesAgainst(step, before) ==
    IF before.count > 0
    THEN /\ SameRatio(step.conversionRate, Ratio(100 * step.count, before.count))
         /\ step.conversionRate.num * step.dropOffRate.den
               + step.dropOffRate.num * step.conversionRate.den
               = 100 * step.conversionRate.den * step.dropOffRate.den
    ELSE /\ SameRatio(step.conversionRate, Zero)
         /\ SameRatio(step.dropOffRate, Zero)

MeanCompletionIn(unit) ==
    LET completed == AverageAt(colAverages, <<"avgTime", colOut.formId>>)
        reported == colOut.totals.avgCompletionTime
    IN  IF completed.count = 0 THEN reported.num = 0
        ELSE /\ reported.den % 1000000 = 0
             /\ (reported.num * completed.count) % (1000000 \div unit) = 0
             /\ (reported.num * completed.count) \div (1000000 \div unit)
                   = completed.sum * (reported.den \div 1000000)

\* C32 as stated: totals.avgCompletionTime of getAnalytics is, in seconds,
\* the mean over the markCompleted calls of the form of the time between
\* startSession and markCompleted (one session completed 4000 ms after its
\* start gives 4), and 0 when no session completed.
C32_Original == colOut # NoAnalytics => MeanCompletionIn(1000)

\* C32 with the unit the code reports: markCompleted stores seconds and
\* getAnalytics divides the mean by 1000 once more, so the total is the mean
\* in thousands of seconds (4000 ms give 0.004), and 0 when no session
\* completed.
C32_DividedTwice == colOut # NoAnalytics => MeanCompletionIn(1000000)

----------------------------------------------------------------------------
(* Forms worker: submit and delete requests that overlap                   *)

\* a submit or a delete is taken up: nothing is read or written before its
\* first await
FormRequestBegins(op, id, body) ==
    /\ Len(formCalls) < MaxCalls
    /\ formCalls' = Append(formCalls,
          [op |-> op, id |-> id, body |-> body,
           await |-> IF op = "submit" THEN "get" ELSE "deleteForm",
           form |-> 0, subId |-> 0, keys |-> {}, status |-> 0])
    /\ UNCHANGED <<forms, subs, nextSubId>>

\* POST /forms/:id/submit of request c, from one await to the next: kv.get
\* of the form with the checks and the new submission, kv.put of the
\* submission, kv.put of the form read at the start with its count raised.
\* The webhook call and the response that follow write nothing.
SubmitRequestStep(c) ==
    LET call == formCalls[c]
    IN  /\ call.op = "submit"
        /\ CASE call.await = "get" ->
                  IF call.id \notin DOMAIN forms
                  THEN /\ formCalls' = [formCalls EXCEPT ![c].await = "done", ![c].status = 404]
                       /\ UNCHANGED <<forms, subs, nextSubId>>
                  ELSE IF SubmitError(forms[call.id], call.body, now) # NoError
                  THEN /\ formCalls' = [formCalls EXCEPT ![c].await = "done", ![c].status = 400]
                       /\ UNCHANGED <<forms, subs, nextSubId>>
                  ELSE /\ nextSubId <= MaxSubs
                       /\ formCalls' = [formCalls EXCEPT ![c].await = "putSubmission",
                                                         ![c].form = forms[call.id],
                                                         ![c].subId = nextSubId]
                       /\ nextSubId' = nextSubId + 1
                       /\ UNCHANGED <<forms, subs>>
             [] call.await = "putSubmission" ->
                  /\ subs' = (<<call.id, call.subId>> :>
                                 [id |-> call.subId, formId |-> call.id, data |-> call.body])
                             @@ subs
                  /\ formCalls' = [formCalls EXCEPT ![c].await = "putForm"]
                  /\ UNCHANGED <<forms, nextSubId>>
             [] call.await = "putForm" ->
                  /\ forms' = (call.form.id :> CountSubmission(call.form)) @@ forms
                  /\ formCalls' = [formCalls EXCEPT ![c].await = "done", ![c].status = 200]
                  /\ UNCHANGED <<subs, nextSubId>>
             [] OTHER -> FALSE

\* DELETE /forms/:id of request c, from one await to the next: kv.delete of
\* the form, kv.list of the submission keys, one kv.delete per listed key
\* in the order of the list
DeleteRequestStep(c) ==
    LET call == formCalls[c]
        NextState(keys) == IF keys = {} THEN "done" ELSE "deleteKey"
    IN  /\ call.op = "delete"
        /\ CASE call.await = "deleteForm" ->
                  /\ forms' = Without(forms, {call.id})
                  /\ formCalls' = [formCalls EXCEPT ![c].await = "list"]
                  /\ UNCHANGED <<subs, nextSubId>>
             [] call.await = "list" ->
                  /\ formCalls' = [formCalls EXCEPT
                                      ![c].keys = SubsOf(call.id),
                                      ![c].await = NextState(SubsOf(call.id)),
                                      ![c].status = IF SubsOf(call.id) = {} THEN 200 ELSE 0]
                  /\ UNCHANGED <<forms, subs, nextSubId>>
             [] call.await = "deleteKey" ->
                  LET key == CHOOSE k \in call.keys : \A other \in call.keys : k[2] <= other[2]
                  IN  /\ subs' = Without(subs, {key})
                      /\ formCalls' = [formCalls EXCEPT
                                          ![c].keys = @ \ {key},
                                          ![c].await = NextState(call.keys \ {key}),
                                          ![c].status = IF call.keys = {key} THEN 200 ELSE 0]
                      /\ UNCHANGED <<forms, nextSubId>>
             [] OTHER -> FALSE

\* forms are created and published one request at a time; up to MaxCalls
\* submit and delete requests then take their steps each at its own pace.
\* A client learns the id of a form from the response to its creation.
FormsOverlapNext ==
    \/ CreateForm(FormBody("Signup", <<EmailValidated>>, FALSE, DefaultSettings))
          /\ UNCHANGED formOps /\ FormsOnly
    \/ \E id \in UrlIds : id \in DOMAIN forms /\ SetPublished(id, TRUE)
                             /\ UNCHANGED formOps /\ FormsOnly
    \/ \E op \in {"submit", "delete"}, id \in UrlIds :
          /\ id < nextFormId
          /\ FormRequestBegins(op, id, SubmitBody(Str(GoodEmail), Undefined))
          /\ FormsOverlapOnly
    \/ \E c \in DOMAIN formCalls : SubmitRequestStep(c) /\ FormsOverlapOnly
    \/ \E c \in DOMAIN formCalls : DeleteRequestStep(c) /\ FormsOverlapOnly

\* the requests that have returned
Returned(op, id) ==
    {c \in DOMAIN formCalls :
        formCalls[c].op = op /\ formCalls[c].id = id /\ formCalls[c].await = "done"}

\* C34: once a delete of a form has returned and no request is in flight
\* any more, the store holds neither the form nor a submission of it,
\* also when a submit overlapped the delete.
C34_Original ==
    \A id \in UrlIds :
        (/\ Returned("delete", id) # {}
         /\ \A c \in DOMAIN formCalls : formCalls[c].await = "done")
        => id \notin DOMAIN forms /\ SubsOf(id) = {}

\* C34, what holds instead: whatever of a deleted form is in the store once
\* every request has returned was written by a submit that was accepted
C34_LeftBySubmit ==
    \A id \in UrlIds :
        (/\ Returned("delete", id) # {}
         /\ \A c \in DOMAIN formCalls : formCalls[c].await = "done"
         /\ (id \in DOMAIN forms \/ SubsOf(id) # {}))
        => \E c \in Returned("submit", id) : formCalls[c].status = 200

----------------------------------------------------------------------------
(* FormAnalyticsCollector: markSubmitted calls that overlap                *)

\* markSubmitted up to its first await: the session is looked up in the map
\* and marked; the call c keeps its reference to it and is left with its
\* counters to increment, the store and the removal from the map
markSubmittedBegins(c, sessionId) ==
    /\ c \notin DOMAIN colCalls
    /\ IF sessionId \notin DOMAIN colSessions
       THEN /\ colCalls' = (c :> [sessionId |-> sessionId, keys |-> <<>>, incremented |-> 0,
                                  await |-> "done", current |-> NoNum, then |-> "done"])
                           @@ colCalls
            /\ UNCHANGED colSessions
       ELSE LET session == [colSessions[sessionId] EXCEPT !.submitted = TRUE]
                formId == session.formId
            IN  /\ colSessions' = [colSessions EXCEPT ![sessionId] = session]
                /\ colCalls' =
                      (c :> [sessionId |-> sessionId, session |-> session,
                             keys |-> <<<<"submissions", formId, DateKey(colNow)>>,
                                        <<"submissions", formId, "total">>>>
                                      \o (IF TruthyStr(session.variant)
                                          THEN <<<<"variant", formId, session.variant,
                                                   "submissions">>>>
                                          ELSE <<>>),
                             incremented |-> 0, await |-> "get", current |-> NoNum,
                             then |-> "store"])
                      @@ colCalls
    /\ UNCHANGED <<colCounters, colStored>>

\* markSubmitted of call c after its counters: the kv.put of storeSession,
\* then this.sessions.delete(sessionId)
markSubmittedEnds(c) ==
    /\ c \in DOMAIN colCalls
    /\ CASE colCalls[c].await = "store" ->
              /\ colStored' = storeSession(colStored, colCalls[c].session)
              /\ colCalls' = [colCalls EXCEPT ![c].await = "delete"]
              /\ UNCHANGED colSessions
         [] colCalls[c].await = "delete" ->
              /\ colSessions' = EvictSubmitted(colSessions, colCalls[c].sessionId)
              /\ colCalls' = [colCalls EXCEPT ![c].await = "done"]
              /\ UNCHANGED colStored
         [] OTHER -> FALSE

\* sessions are started one call at a time; up to MaxCalls calls of
\* markSubmitted then take their steps each at its own pace
MarkOverlapNext ==
    \/ ColCall(startSession("f1", "s1", "desktop", NoStr, NoStr))
          /\ SessionHistory("s1", "start") /\ ColOnly
    \/ \E c \in 1..MaxCalls :
          markSubmittedBegins(c, "s1") /\ UNCHANGED colEnded /\ OverlapOnly
    \/ \E c \in 1..MaxCalls : incrementCounterReads(c) /\ UNCHANGED colEnded /\ OverlapOnly
    \/ \E c \in 1..MaxCalls : incrementCounterWrites(c) /\ UNCHANGED colEnded /\ OverlapOnly
    \/ \E c \in 1..MaxCalls : markSubmittedEnds(c) /\ MarkSubmittedEndsOnly

\* the calls of markSubmitted that have raised the total of the submissions
RaisedTotal ==
    {c \in DOMAIN colCalls :
        colCalls[c].keys # <<>> /\ colCalls[c].incremented >= 2}

\* C35: each started session contributes at most one submission to the
\* counters of its form, also when calls of markSubmitted for the session
\* overlap: no more calls raise submissions:{formId}:total than sessions were
\* started, and the total of the submissions never exceeds that of the views.
C35_Original ==
    /\ Cardinality(RaisedTotal) <= getCounter(<<"views", "f1", "total">>)
    /\ getCounter(<<"submissions", "f1", "total">>) <= getCounter(<<"views", "f1", "total">>)

\* C35, what holds instead: the total of the submissions is at most the
\* number of markSubmitted calls that found the session in the map, one
\* call that overlaps another included
C35_OnePerCallWithSession ==
    /\ getCounter(<<"submissions", "f1", "total">>) <= Cardinality(RaisedTotal)
    /\ Cardinality(RaisedTotal) <= Cardinality({c \in DOMAIN colCalls : colCalls[c].keys # <<>>})

----------------------------------------------------------------------------
(* FormAnalyticsCollector: counters over the days                          *)

\* the date keys under which a daily counter of the metric is stored
DailyKeys(metric, formId) ==
    {k \in DOMAIN colCounters :
        Len(k) = 3 /\ k[1] = metric /\ k[2] = formId /\ k[3] # "total"}

RECURSIVE SumOfCounters(_)
SumOfCounters(keys) ==
    IF keys = {} THEN 0
    ELSE LET k == CHOOSE x \in keys : TRUE
         IN  colCounters[k] + SumOfCounters(keys \ {k})

\* C36: for every form and each of views, starts, completions and
\* submissions, the total counter is the sum of the daily counters of the
\* metric over all dates, in every state the calls of the collector reach
\* one after another.
C36_TotalIsSumOfDays ==
    \A f \in ColForms, metric \in {"views", "starts", "completions", "submissions"} :
        getCounter(<<metric, f, "total">>) = SumOfCounters(DailyKeys(metric, f))

\* a metric counted on two days, with the calls of one day not all on the other
C36_Witness ==
    \E f \in ColForms, metric \in {"starts", "completions", "submissions"} :
        /\ Cardinality(DailyKeys(metric, f)) = 2
        /\ Cardinality(DailyKeys("views", f)) = 1
        /\ getCounter(<<metric, f, "total">>) = 2

\* a quotient between 0 and 1
InUnitInterval(r) == r.den > 0 /\ 0 <= r.num /\ r.num <= r.den

\* C37: after any sequence of collector calls made one after another, the
\* funnel of getAnalytics does not increase from step to step (views >=
\* starts >= completions >= submissions), so no dropOff is negative and the
\* abandonment and conversion rates of the totals lie between 0 and 1.
C37_Original ==
    colOut # NoAnalytics =>
        /\ \A i \in 1..3 : /\ colOut.funnel[i].count >= colOut.funnel[i + 1].count
                           /\ colOut.funnel[i].dropOff >= 0
        /\ InUnitInterval(colOut.totals.abandonmentRate)
        /\ InUnitInterval(colOut.totals.conversionRate)

\* C37, what holds instead: the submissions never exceed the views, so the
\* conversion rate lies between 0 and 1, and no step is counted before the
\* first view
C37_SubmissionsWithinViews ==
    colOut # NoAnalytics =>
        /\ colOut.funnel[4].count <= colOut.funnel[1].count
        /\ InUnitInterval(colOut.totals.conversionRate)
        /\ (colOut.funnel[1].count = 0 => \A i \in 2..4 : colOut.funnel[i].count = 0)

----------------------------------------------------------------------------
(* FormABTestManager: views and assignment records of a test               *)

\* the sessions with an assignment record for a test
Assigned(assign, t) == {k \in DOMAIN assign : k[1] = t}

\* C38 as stated: after any sequence of getVariant calls made one after
\* another, the views of the variants of a test add up to the number of
\* sessions with a recorded assignment for the test.
C38_Original ==
    \A t \in DOMAIN fabTests :
        TotalViews(fabTests[t]) = Cardinality(Assigned(fabAssign, t))

\* C38 for records that can expire: a step raises the views of a test by
\* one for each assignment record it adds, at the variant recorded, and by
\* nothing when it adds no record (a repeated getVariant adds none); the
\* views are the number of assignments ever recorded.
C38_ViewsFollowRecords ==
    [][\A t \in DOMAIN fabTests :
          LET added == Assigned(fabAssign', t) \ Assigned(fabAssign, t)
              before == fabTests[t].variants
              after == fabTests'[t].variants
          IN  /\ Cardinality(added) <= 1
              /\ TotalViews(fabTests'[t]) = TotalViews(fabTests[t]) + Cardinality(added)
              /\ \A k \in added :
                    /\ FindVariant(before, fabAssign'[k]) # 0
                    /\ after[FindVariant(before, fabAssign'[k])].views
                          = before[FindVariant(before, fabAssign'[k])].views + 1]_vars

\* a session was assigned, asked again, and its one view is counted
C38_Witness ==
    \E k \in DOMAIN fabGiven :
        /\ fabGiven[k].calls = 2
        /\ k \in DOMAIN fabAssign
        /\ TotalViews(fabTests[k[1]]) = 1

\* a call of getVariant: it is counted, creates no test and stops none
GetVariantCalled ==
    /\ fabOps' # fabOps
    /\ fabNextId' = fabNextId
    /\ \A t \in DOMAIN fabTests : fabTests'[t].status = fabTests[t].status

\* C39: once stopTest has stopped a test, getVariant assigns no new session:
\* for a session without an assignment record it returns null and writes
\* neither a record nor a view, and for a session with a record it returns
\* the recorded variant.
C39_StoppedTakesNoSession ==
    [][(/\ GetVariantCalled
        /\ fabRet'.testId \in DOMAIN fabTests
        /\ fabTests[fabRet'.testId].status = "stopped")
       => /\ fabAssign' = fabAssign
          /\ fabTests' = fabTests
          /\ fabRet'.variantId =
                IF <<fabRet'.testId, fabRet'.sessionId>> \in DOMAIN fabAssign
                THEN fabAssign[<<fabRet'.testId, fabRet'.sessionId>>]
                ELSE NullVariant]_vars

\* after the stop one session got its recorded variant and is still
\* recorded, and the last call, for a session without a record, got null
C39_Witness ==
    /\ fabRet.testId \in DOMAIN fabTests
    /\ fabTests[fabRet.testId].status = "stopped"
    /\ fabRet.variantId = NullVariant
    /\ <<fabRet.testId, fabRet.sessionId>> \notin DOMAIN fabAssign
    /\ \E k \in Assigned(fabAssign, fabRet.testId) :
          k \in DOMAIN fabGiven /\ fabGiven[k].calls = 2

----------------------------------------------------------------------------
(* Forms worker: what changes the counter and the flag of a form           *)

\* the forms stored before and after a step
Kept == DOMAIN forms \cap DOMAIN forms'

\* the request answered by a step
Answered(ops, id) == resp' # resp /\ resp'.op \in ops /\ resp'.id = id

----------------------------------------------------------------------------
(* Specifications                                                          *)

\* every component starts empty; a specification runs one of them
AllIdle ==
    /\ FormsInit /\ ValidateIdle /\ CsvIdle /\ ABIdle /\ FabIdle /\ JourneyIdle /\ ColIdle
    /\ CtIdle

SpecForms == AllIdle /\ [][FormsNext]_vars
SpecFormsOverlap == AllIdle /\ [][FormsOverlapNext]_vars
SpecValidate == AllIdle /\ [][ValidateNext]_vars
SpecCsv == AllIdle /\ [][CsvNext]_vars
SpecAB == AllIdle /\ [][ABNext]_vars
SpecFAB == AllIdle /\ [][FabNext]_vars
SpecFabResults == AllIdle /\ [][FabResultsNext]_vars
SpecFabAssign == AllIdle /\ [][FabAssignNext]_vars
SpecFabOverlap == AllIdle /\ [][FabOverlapNext]_vars
SpecJourney == AllIdle /\ [][JourneyNext]_vars
SpecCol == AllIdle /\ [][ColNext]_vars
SpecColFields == AllIdle /\ [][ColFieldsNext]_vars
SpecOverlap == AllIdle /\ [][OverlapNext]_vars
SpecMarkOverlap == AllIdle /\ [][MarkOverlapNext]_vars
SpecCT == AllIdle /\ [][CtNext]_vars

====
